---- MODULE Spec2Model ----
(***************************************************************************)
(* Gateway client of agent-forge-streak.                                   *)
(*                                                                         *)
(* src/src/gateway/connection.js holds the connection engine.  The engine  *)
(* with the device-identity handshake (lines 584-990) is modelled by the   *)
(* variables below and the specification Spec.  Every callback of the      *)
(* engine (socket open/message/close, a timer firing, the resumption of an *)
(* async function after an await) is one action; the module-level          *)
(* variables of the engine and the store keep their names.  SpecBackoff   *)
(* runs the same engine through long series of retries; FairSpec adds that *)
(* timers fire and suspended calls resume.  The pending-table engine of    *)
(* the same file (lines 1-283) has the pt variables and the specification  *)
(* SpecPT.                                                                 *)
(***************************************************************************)
EXTENDS Integers, Sequences, FiniteSets, TLC

\* ------------------------------------------------------------------ bounds
MaxLoad == 2             \* what earlier calls may leave behind at one time:
                         \* suspended connect() and sendConnect() calls,
                         \* sockets other than ws that carry the handlers,
                         \* armed timers no handle refers to
CoreAttempts == 1        \* cap of reconnectAttempt under Spec
MaxAttempt == 6          \* cap of reconnectAttempt under SpecBackoff
BackoffLoad == 1         \* the load SpecBackoff goes to
MaxQueue == 1            \* length of the offline queue
MaxRequests == 3         \* request ids in use at one time (pending-table engine)
MaxStored == 2           \* length of the queue of the store under SpecStore
MaxTaskId == 2           \* task ids of queued items under SpecStore
MaxListeners == 2        \* listeners registered at one time under SpecListen
InvokeCap == 2           \* calls of one listener counted within one step
PtAttempts == 2          \* cap of reconnectAttempt under SpecPT
Chunk == 16              \* the agent's frames end at multiples of Chunk characters
TickCap == 3             \* 'tick' listeners counted under SpecOwn: 3 is 3 or more
MaxRenders == 2          \* times the main view is rendered under SpecFetch
MaxKeys == 3             \* key pairs generated under SpecIdentity

\* -------------------------------------------------------- program constants
HEARTBEAT_INTERVAL == 30000
RECONNECT_BASE == 1000
RECONNECT_CAP == 30000

\* One step of the model's clock: one heartbeat interval.
ClockStep == HEARTBEAT_INTERVAL
\* Elapsed times beyond the heartbeat threshold are all alike.
ClockCap == 3 * HEARTBEAT_INTERVAL + ClockStep
\* Two frames with one key are as good as more.
WireCap == 2

Null == "null"
SettingsSet == {"cfgA", "cfgB"}
Nonces == {"n1"}
Keys == {"k1", "k2", "k3"}
KeyRank(k) == IF k = "k1" THEN 1 ELSE IF k = "k2" THEN 2 ELSE 3
DeviceIds == {"devA"}

authToken(s) == IF s = "cfgA" THEN "tokA" ELSE "tokB"
agentId(s) == IF s = "cfgA" THEN "agent:main" ELSE "personal"
\* getSessionKey(agentId): `${agentId}:webchat:dm:forge-pwa`
getSessionKey(agent) == << agent, ":webchat:dm:forge-pwa" >>

Min(a, b) == IF a < b THEN a ELSE b

RECURSIVE Pow2(_)
Pow2(n) == IF n = 0 THEN 1 ELSE 2 * Pow2(n - 1)

\* ---------------------------------------------------------------- frames
NoError == [present |-> FALSE, code |-> "", message |-> Null]
Err(c, m) == [present |-> TRUE, code |-> c, message |-> m]

\* Inbound frames after parseFrame.  idMatch: the frame's id is the id of the
\* connect request the engine holds in connectId.
EventFrame(ev, nonce) ==
  [type |-> "event", event |-> ev, idMatch |-> FALSE, ok |-> TRUE,
   error |-> NoError, nonce |-> nonce, isNull |-> FALSE, raw |-> Null]
ResFrame(match, ok, err) ==
  [type |-> "res", event |-> Null, idMatch |-> match, ok |-> ok,
   error |-> err, nonce |-> Null, isNull |-> FALSE, raw |-> Null]
\* the sentinel of parseFrame for the text raw
Sentinel(raw) ==
  [type |-> "unknown", event |-> Null, idMatch |-> FALSE, ok |-> TRUE,
   error |-> NoError, nonce |-> Null, isNull |-> FALSE, raw |-> raw]
UnknownFrame == Sentinel("not json")
\* JSON.parse of the text null: the value null, which has no properties
NullFrame ==
  [type |-> Null, event |-> Null, idMatch |-> FALSE, ok |-> TRUE,
   error |-> NoError, nonce |-> Null, isNull |-> TRUE, raw |-> Null]
\* JSON.parse of a number, a string, a boolean or an array: no type, no event
PrimitiveFrame ==
  [type |-> Null, event |-> Null, idMatch |-> FALSE, ok |-> TRUE,
   error |-> NoError, nonce |-> Null, isNull |-> FALSE, raw |-> Null]

ServerErrors ==
  { Err("NOT_PAIRED", "pairing required"),
    Err("", "device NOT_PAIRED yet"),
    Err("E_AUTH", "bad token"),
    Err("E_AUTH", Null) }

Frames ==
  { EventFrame("connect.challenge", n) : n \in Nonces \cup {Null} }
    \cup { EventFrame("tick", Null), EventFrame("chat", Null), UnknownFrame }
    \cup { ResFrame(m, TRUE, NoError) : m \in BOOLEAN }
    \cup { ResFrame(TRUE, FALSE, NoError) }
    \cup { ResFrame(TRUE, FALSE, er) : er \in ServerErrors }
    \cup { ResFrame(TRUE, TRUE, Err("E_AUTH", "bad token")) }

\* a message that is a number: it has no includes()
NotAString == "<5>"

\* what the socket delivers: text that is not JSON, the JSON text of null, of
\* a primitive, or of a frame
Payloads ==
  { [kind |-> "invalid", text |-> "not json", frame |-> NullFrame],
    [kind |-> "null", text |-> "null", frame |-> NullFrame],
    [kind |-> "primitive", text |-> "5", frame |-> PrimitiveFrame] }
    \cup { [kind |-> "object", text |-> "{...}", frame |-> f] :
             f \in Frames \cup {ResFrame(TRUE, FALSE, Err("E_AUTH", NotAString))} }

\* parseFrame(data): JSON.parse, and the sentinel when it throws
parseFrame(data) ==
  IF data.kind = "invalid" THEN Sentinel(data.text) ELSE data.frame

\* String.prototype.includes('NOT_PAIRED') over the messages of the model.
IncludesNotPaired(msg) == msg \in {"device NOT_PAIRED yet", "NOT_PAIRED"}

\* --------------------------------------------------------------- state
VARIABLES
  connection,        \* store: connection {state, error}
  settings,          \* store: settings (the configuration in force)
  pendingQueue,      \* store: offline queue, a sequence of idempotency keys
  ws,                \* the socket the handle refers to (ready "NONE": null)
  stale,             \* sockets that carry the handlers and are not ws: a bag
  heartbeatTimer,    \* the heartbeat interval is armed
  reconnectTimer,    \* the retry timer the handle refers to
  connectTimer,      \* the handle refers to an armed send-delay timer
  strayReconnect,    \* armed retry timers no handle refers to
  strayConnect,      \* armed send-delay timers no handle refers to
  reconnectAttempt,
  authenticated,
  connectSent,
  currentAuthToken,
  connectId,         \* live: not null; at: where the request with this id went
  challengeNonce,
  deviceIdentity,
  sinceTick,         \* Date.now() - lastTick of the armed heartbeat
  sinceBeat,         \* time since the heartbeat interval last fired
  awaitIdentity,     \* connect() calls suspended at `await getOrCreateDeviceIdentity()`
  awaitSign,         \* sendConnect() calls suspended at `await signPayload()`:
                     \* per call, the token and nonce of the payload it signs
  idbRecord,         \* the persisted device identity record
  lastBase,          \* history: unjittered delay of the last retry since CONNECTED
  cause,             \* history: what last ended a session, until connect()
  wire,              \* per key, the chat.send frames the last step wrote with it
  lastSend,          \* what sendMessage() did, if it was the last step
  eventHandlers,     \* the listeners of on(): pairs << event, handler >>
  invoked,           \* how often the last step called each listener
  thrown,            \* the error the last step left uncaught, if any
  flushKey,          \* the session key the flush of the last step sent under
  connectFrame,      \* the connect request the last step built, if any
  tickListeners,     \* the 'tick' listeners startHeartbeat() has registered
  view,              \* ui/tasks.js: the subscriber, hasFetchedTasks, and how
                     \* many 'connected' listeners it has registered
  fetched            \* the fetch requests the last step wrote to the socket

\* the pending-table engine (connection.js lines 1-283)
VARIABLES
  ptConnection,        \* store: connection {state, error}
  ptQueue,             \* store: offline queue, a sequence of idempotency keys
  ptWs,                \* readyState of ws ("NONE": null)
  ptHeartbeatTimer,
  ptReconnectTimer,
  ptReconnectAttempt,
  ptPendingRequests,   \* the ids that have an entry in the pending table
  ptTimeouts,          \* the ids whose timeout timer is armed
  ptRequests,          \* per id: what was asked and how it was settled
  ptDirect,            \* completeTask's key |-> the key its direct send carried
  ptLast               \* history: the operation that ran last

engineVars ==
  << connection, settings, pendingQueue, ws, stale, heartbeatTimer,
     reconnectTimer, connectTimer, strayReconnect, strayConnect,
     reconnectAttempt, authenticated, connectSent, currentAuthToken,
     connectId, challengeNonce, deviceIdentity, sinceTick,
     sinceBeat, awaitIdentity, awaitSign, idbRecord, lastBase, cause,
     wire, lastSend, eventHandlers, invoked, thrown, flushKey,
     connectFrame, tickListeners, view, fetched >>

ptVars ==
  << ptConnection, ptQueue, ptWs, ptHeartbeatTimer, ptReconnectTimer,
     ptReconnectAttempt, ptPendingRequests, ptTimeouts, ptRequests,
     ptDirect, ptLast >>

\* the store (main.js) and what it keeps in localStorage
VARIABLES
  stQueue,             \* state.pendingQueue: a sequence of items
  stConnection,        \* state.connection.state
  stStorage,           \* localStorage[STORAGE_KEY]: absent, or the text saved
  stLast               \* history: the operation that ran last

stVars == << stQueue, stConnection, stStorage, stLast >>

\* getOrCreateDeviceIdentity (device-identity.js) and its IndexedDB record
VARIABLES
  idb,                 \* the record under IDENTITY_KEY
  idPc,                \* where each call of getOrCreateDeviceIdentity stands
  idStored,            \* what each call read with idbGet
  idKey,               \* the key pair each call generated
  idResult,            \* the device id each caller got last
  idNext               \* the next key pair generateKey makes

idVars == << idb, idPc, idStored, idKey, idResult, idNext >>

\* buildDeviceAuthPayload (device-identity.js)
VARIABLES
  payIn,               \* the fields it was called with last
  payOut               \* the string it returned, as a sequence of tokens

payVars == << payIn, payOut >>

\* the delta accumulator (createDeltaAccumulator)
VARIABLES
  accBuffer,           \* buffer
  accParsed,           \* what the last parse() returned
  accMsg,              \* the message the agent is streaming
  accLast              \* history: the operation that ran last

accVars == << accBuffer, accParsed, accMsg, accLast >>

\* the tasks view (ui/tasks.js) and the tasks of the store
VARIABLES
  tasks,               \* state.tasks {day, stats, items, rawMessage}
  tkPos,               \* how much of its message the agent has streamed
  applied              \* history: the parse result this step applied, if any

tkVars == << tasks, tkPos, applied >>

\* completeTask (ui/tasks.js) on the device-identity engine
VARIABLES
  userAction           \* history: what became of the last task completion

actVars == << userAction >>

\* the variables of the smaller models
sideVars == << idVars, payVars, accVars, tkVars, actVars >>

vars == << engineVars, ptVars, stVars, sideVars >>

NoSocket == [ready |-> "NONE", settings |-> Null, connectFrames |-> 0]
NoId == [live |-> FALSE, at |-> "none"]
NoTimer == [armed |-> FALSE, settings |-> Null, delay |-> 0]
NoCause == [by |-> "none", from |-> "none"]
NoSend == [written |-> FALSE, promise |-> "none"]
NoFrame == [built |-> FALSE]
NoPayload == [token |-> "none", nonce |-> "none"]
NoWire == [k \in Keys |-> 0]

\* A socket other than ws: its readyState, the settings its handlers closed
\* over, and whether the connect request whose id is in connectId went to it.
EventNames == {"*", "res", "event", "tick"}
Handlers == {"h1"}
Listeners == EventNames \X Handlers
NotInvoked == [l \in Listeners |-> 0]

StaleKinds == [ready : {"CONNECTING", "OPEN"}, settings : SettingsSet, holdsId : BOOLEAN]
StaleCount(bag) ==
  LET RECURSIVE Sum(_)
      Sum(S) == IF S = {} THEN 0
                ELSE LET q == CHOOSE x \in S : TRUE IN bag[q] + Sum(S \ {q})
  IN  Sum(StaleKinds)
BagAdd(bag, q) == [bag EXCEPT ![q] = @ + 1]
BagDel(bag, q) == [bag EXCEPT ![q] = @ - 1]
\* no stale socket holds the id in connectId any more
Forget(bag) ==
  [q \in StaleKinds |->
     IF q.holdsId THEN 0 ELSE bag[q] + bag[[q EXCEPT !.holdsId = TRUE]]]

\* The engine state as one record, so that the functions of the source
\* compose the way they call each other.
Cur ==
  [ connection |-> connection, settings |-> settings, pendingQueue |-> pendingQueue,
    ws |-> ws, stale |-> stale, heartbeatTimer |-> heartbeatTimer,
    reconnectTimer |-> reconnectTimer, connectTimer |-> connectTimer,
    strayReconnect |-> strayReconnect, strayConnect |-> strayConnect,
    reconnectAttempt |-> reconnectAttempt, authenticated |-> authenticated,
    connectSent |-> connectSent, currentAuthToken |-> currentAuthToken,
    connectId |-> connectId, challengeNonce |-> challengeNonce,
    deviceIdentity |-> deviceIdentity,
    sinceTick |-> sinceTick, sinceBeat |-> sinceBeat,
    awaitIdentity |-> awaitIdentity, awaitSign |-> awaitSign,
    idbRecord |-> idbRecord, lastBase |-> lastBase, cause |-> cause,
    wire |-> NoWire, lastSend |-> NoSend,
    eventHandlers |-> eventHandlers, invoked |-> NotInvoked,
    thrown |-> Null, flushKey |-> Null, connectFrame |-> NoFrame,
    tickListeners |-> tickListeners, view |-> view, fetched |-> 0 ]

Assign(e) ==
  /\ connection' = e.connection
  /\ settings' = e.settings
  /\ pendingQueue' = e.pendingQueue
  /\ ws' = e.ws
  /\ stale' = e.stale
  /\ heartbeatTimer' = e.heartbeatTimer
  /\ reconnectTimer' = e.reconnectTimer
  /\ connectTimer' = e.connectTimer
  /\ strayReconnect' = e.strayReconnect
  /\ strayConnect' = e.strayConnect
  /\ reconnectAttempt' = e.reconnectAttempt
  /\ authenticated' = e.authenticated
  /\ connectSent' = e.connectSent
  /\ currentAuthToken' = e.currentAuthToken
  /\ connectId' = e.connectId
  /\ challengeNonce' = e.challengeNonce
  /\ deviceIdentity' = e.deviceIdentity
  /\ sinceTick' = e.sinceTick
  /\ sinceBeat' = e.sinceBeat
  /\ awaitIdentity' = e.awaitIdentity
  /\ awaitSign' = e.awaitSign
  /\ idbRecord' = e.idbRecord
  /\ lastBase' = e.lastBase
  /\ cause' = e.cause
  /\ wire' = e.wire
  /\ lastSend' = e.lastSend
  /\ eventHandlers' = e.eventHandlers
  /\ invoked' = e.invoked
  /\ thrown' = e.thrown
  /\ flushKey' = e.flushKey
  /\ connectFrame' = e.connectFrame
  /\ tickListeners' = e.tickListeners
  /\ view' = e.view
  /\ fetched' = e.fetched

Becomes(e) == Assign(e) /\ UNCHANGED << ptVars, stVars, sideVars >>

\* ----------------------------------------------------- engine functions
\* send(obj): written when ws is a socket whose readyState is OPEN
send(e) == e.ws.ready = "OPEN"

\* a sendMessage that does not look at authenticated
sendMessage_Unguarded(e) ==
  IF send(e)
  THEN [e EXCEPT !.lastSend = [written |-> TRUE, promise |-> "resolved"]]
  ELSE [e EXCEPT !.lastSend = [written |-> FALSE, promise |-> "Not connected"]]

\* gateway.sendMessage(text): the chat.send frame carries a key of its own
sendMessage(e) ==
  IF ~e.authenticated
  THEN [e EXCEPT !.lastSend = [written |-> FALSE, promise |-> "Not authenticated"]]
  ELSE IF send(e)
  THEN [e EXCEPT !.lastSend = [written |-> TRUE, promise |-> "resolved"]]
  ELSE [e EXCEPT !.lastSend = [written |-> FALSE, promise |-> "Not connected"]]

\* fetchTasks() of ui/tasks.js: gateway.sendMessage("Show today's tasks");
\* a rejection is reported by a toast
fetchTasks(e) ==
  IF sendMessage(e).lastSend.written
  THEN [e EXCEPT !.fetched = @ + 1]
  ELSE e

\* the subscriber of setupConnectionListener, which the store calls on every
\* update (it also redraws the view)
subscriber(e) ==
  IF e.view.subscribed /\ e.connection.state = "CONNECTED" /\ ~e.view.hasFetchedTasks
  THEN fetchTasks([e EXCEPT !.view.hasFetchedTasks = TRUE])
  ELSE e

\* the 'connected' listeners of setupEventListener, one after the other
RECURSIVE onConnected(_, _)
onConnected(e, n) ==
  IF n = 0 THEN e
  ELSE onConnected(fetchTasks([e EXCEPT !.view.hasFetchedTasks = TRUE]), n - 1)

\* renderMain(container): setupConnectionListener() replaces the subscriber
\* and clears hasFetchedTasks; setupEventListener() registers one more
\* 'connected' listener, whose unsubscribe function is dropped
renderMain(e) ==
  [e EXCEPT !.view = [subscribed |-> TRUE, hasFetchedTasks |-> FALSE,
                      connected |-> @.connected + 1]]

\* store.update('connection', {state, error}), which calls the subscribers
setState(e, st, err) ==
  subscriber([e EXCEPT !.connection = [state |-> st, error |-> err]])

\* ReconnectBase without the cap
ReconnectBase_Uncapped(attempt) == RECONNECT_BASE * Pow2(attempt)

\* min(base * 2^attempt, cap)
ReconnectBase(attempt) == Min(RECONNECT_BASE * Pow2(attempt), RECONNECT_CAP)

\* base plus a jitter of 30% of base times Math.random(); rnd is the draw in
\* hundredths
getReconnectDelay(attempt, rnd) ==
  ReconnectBase(attempt) + (ReconnectBase(attempt) * 3 * rnd) \div 1000

stopHeartbeat(e) ==
  [e EXCEPT !.heartbeatTimer = FALSE, !.sinceTick = 0, !.sinceBeat = 0]

\* gateway.on('tick', ...) adds a listener of the engine's own on every call;
\* the function on() returns is dropped
startHeartbeat(e) ==
  [stopHeartbeat(e) EXCEPT !.heartbeatTimer = TRUE,
                           !.sinceTick = 0,
                           !.sinceBeat = 0,
                           !.tickListeners = Min(@ + 1, TickCap)]

\* cleanup that leaves the retry timer armed
cleanup_KeepsRetry(e) ==
  LET e1 == stopHeartbeat(e) IN
  [e1 EXCEPT !.authenticated = FALSE,
             !.connectSent = FALSE,
             !.currentAuthToken = Null,
             !.connectId = NoId,
             !.challengeNonce = Null,
             !.connectTimer = FALSE,
             !.ws = NoSocket,
             !.stale = Forget(@)]

cleanup(e) ==
  LET e1 == stopHeartbeat(e) IN
  [e1 EXCEPT !.authenticated = FALSE,
             !.connectSent = FALSE,
             !.currentAuthToken = Null,
             !.connectId = NoId,
             !.challengeNonce = Null,
             !.reconnectTimer = NoTimer,
             !.connectTimer = FALSE,
             !.ws = NoSocket,
             !.stale = Forget(@)]

scheduleReconnect(e, s, rnd) ==
  LET e1 == setState(e, "RECONNECTING", Null) IN
  [e1 EXCEPT !.reconnectAttempt = @ + 1,
             !.lastBase = ReconnectBase(e.reconnectAttempt),
             !.strayReconnect =
                IF e.reconnectTimer.armed THEN Append(@, e.reconnectTimer) ELSE @,
             !.reconnectTimer =
                [armed |-> TRUE, settings |-> s,
                 delay |-> getReconnectDelay(e.reconnectAttempt, rnd)]]

\* sendConnect(): the token and nonce handed to buildDeviceAuthPayload
\* ({..., token: currentAuthToken || null, nonce: challengeNonce || undefined}),
\* which the signature covers
signedPayload(e) ==
  [token |-> e.currentAuthToken, nonce |-> e.challengeNonce]

\* the tail of sendConnect(): the device block takes its nonce, and
\* buildConnectRequest its token and nonce, from the module state as it is
\* now; the request gets a fresh id, which is stored in connectId, and is
\* handed to send().  payload is what was signed (NoPayload: no device block)
writeConnect(e, payload) ==
  LET e1 == [e EXCEPT !.connectFrame =
               [built |-> TRUE, written |-> send(e),
                token |-> e.currentAuthToken, nonce |-> e.challengeNonce,
                device |-> IF payload = NoPayload THEN NoPayload
                           ELSE [signed |-> payload, nonce |-> e.challengeNonce]]]
  IN  IF send(e)
      THEN [e1 EXCEPT !.connectId = [live |-> TRUE, at |-> "ws"],
                      !.stale = Forget(@),
                      !.ws.connectFrames = @ + 1]
      ELSE [e1 EXCEPT !.connectId = [live |-> TRUE, at |-> "none"],
                      !.stale = Forget(@)]

\* sendConnect() up to its await (to its end when there is no identity)
sendConnect(e) ==
  IF e.connectSent THEN e
  ELSE LET e1 == [e EXCEPT !.connectSent = TRUE, !.connectTimer = FALSE] IN
       IF e.deviceIdentity # Null
       THEN [e1 EXCEPT !.awaitSign = Append(@, signedPayload(e))]
       ELSE writeConnect(e1, NoPayload)

\* sendConnect() after `await signPayload(...)` of the i-th suspended call;
\* the device block reads deviceIdentity again and throws when it is null
\* by now
sendConnectResume(e, i, signed) ==
  LET e1 == [e EXCEPT !.awaitSign = SubSeq(@, 1, i - 1) \o SubSeq(@, i + 1, Len(@))] IN
  IF signed /\ e.deviceIdentity # Null THEN writeConnect(e1, e.awaitSign[i]) ELSE e1

\* store.dequeue(idempotencyKey)
dequeue(e, key) ==
  subscriber([e EXCEPT !.pendingQueue = SelectSeq(@, LAMBDA k : k # key)])

\* one turn of the loop that drops the item whether or not it was written
flushItem_DropsUnsent(e, key) == dequeue(e, key)

\* one turn of the loop of flushQueue: the item is written to the socket,
\* and taken off the queue if the write was made
flushItem(e, key) ==
  IF send(e)
  THEN dequeue([e EXCEPT !.wire[key] = Min(@ + 1, WireCap)], key)
  ELSE e

\* the loop of flushQueue over the queue as it was at the start
RECURSIVE flushItems(_, _)
flushItems(e, items) ==
  IF items = << >> THEN e
  ELSE flushItems(flushItem(e, Head(items)), Tail(items))

flushQueue(e, s) ==
  IF Len(e.pendingQueue) = 0 THEN e
  ELSE flushItems([e EXCEPT !.flushKey = getSessionKey(agentId(s))], e.pendingQueue)

\* store.enqueue(item)
enqueue(e, key) ==
  subscriber([e EXCEPT !.pendingQueue = Append(@, key)])

\* gateway.isConnected
isConnected(e) == e.authenticated /\ e.connection.state = "CONNECTED"

\* what became of a task completion: written to the socket or put on the
\* queue, and whether a toast told the user
NoAction == [fate |-> "none", key |-> Null, toast |-> FALSE]

\* completeTask(taskId, text) of ui/tasks.js on this engine, with the key it
\* drew: the engine after it, and what became of the completion
completeTaskOn(e, key) ==
  IF isConnected(e)
  THEN LET e1 == sendMessage(e) IN
       IF e1.lastSend.promise = "resolved"
       THEN [e |-> e1, action |-> [fate |-> "written", key |-> key, toast |-> FALSE]]
       ELSE [e |-> enqueue(e1, key),
             action |-> [fate |-> "queued", key |-> key, toast |-> TRUE]]
  ELSE [e |-> enqueue(e, key),
        action |-> [fate |-> "queued", key |-> key, toast |-> TRUE]]

\* store.clearQueue()
clearQueue(e) == subscriber([e EXCEPT !.pendingQueue = << >>])

\* gateway.on(event, handler) and gateway.off(event, handler)
on(e, l) == [e EXCEPT !.eventHandlers = @ \cup {l}]
off(e, l) == [e EXCEPT !.eventHandlers = @ \ {l}]

\* emit(event, data): the handlers of the event, then those of '*'.  The
\* 'tick' listener of the armed heartbeat sets lastTick to Date.now().
emit(e, event) ==
  LET called(l) == (IF l \in e.eventHandlers /\ l[1] = event THEN 1 ELSE 0)
                   + (IF l \in e.eventHandlers /\ l[1] = "*" THEN 1 ELSE 0)
      e1 == [e EXCEPT !.invoked = [l \in Listeners |-> Min(@[l] + called(l), InvokeCap)]]
  IN  IF event = "tick" /\ e.heartbeatTimer
      THEN [e1 EXCEPT !.sinceTick = 0]
      ELSE IF event = "connected"
      THEN onConnected(e1, e.view.connected)
      ELSE e1

\* emit(frame.type || 'message', frame); if (frame.event) emit(frame.event, frame)
forward(e, f) ==
  LET e1 == emit(e, IF f.type = Null THEN "message" ELSE f.type) IN
  IF f.event # Null THEN emit(e1, f.event) ELSE e1

\* handleMessage for which every rejection is fatal
handleMessage_NoPairing(e, f, s) ==
  IF f.type = "event" /\ f.event = "connect.challenge"
  THEN sendConnect([e EXCEPT !.challengeNonce = f.nonce])
  ELSE IF f.type = "res" /\ f.idMatch
  THEN IF f.ok /\ ~f.error.present
       THEN LET e1 == [e EXCEPT !.authenticated = TRUE, !.reconnectAttempt = 0,
                                !.lastBase = 0]
                e2 == setState(e1, "CONNECTED", Null)
                e3 == startHeartbeat(e2)
            IN  emit(flushQueue(e3, s), "connected")
       ELSE LET errMsg == IF f.error.present /\ f.error.message # Null
                          THEN f.error.message ELSE "Connect rejected"
            IN  [cleanup(setState(e, "DISCONNECTED", errMsg))
                   EXCEPT !.cause = [by |-> "rejected", from |-> "none"]]
  ELSE forward(e, f)

\* handleMessage(raw, settings): s is the settings the socket's handlers
\* closed over
handleMessage(e, f, s) ==
  IF f.isNull
  THEN [e EXCEPT !.thrown = "TypeError"]
  ELSE IF f.type = "event" /\ f.event = "connect.challenge"
  THEN sendConnect([e EXCEPT !.challengeNonce = f.nonce])
  ELSE IF f.type = "res" /\ f.idMatch
  THEN IF f.ok /\ ~f.error.present
       THEN LET e1 == [e EXCEPT !.authenticated = TRUE, !.reconnectAttempt = 0,
                                !.lastBase = 0]
                e2 == setState(e1, "CONNECTED", Null)
                e3 == startHeartbeat(e2)
            IN  emit(flushQueue(e3, s), "connected")
       ELSE LET errCode == f.error.code
                errMsg == IF f.error.present /\ f.error.message # Null
                          THEN f.error.message ELSE "Connect rejected"
            IN  IF errCode # "NOT_PAIRED" /\ errMsg = NotAString
                THEN [e EXCEPT !.thrown = "TypeError"]
                ELSE IF errCode = "NOT_PAIRED" \/ IncludesNotPaired(errMsg)
                THEN setState(e, "PAIRING", e.deviceIdentity)
                ELSE [cleanup(setState(e, "DISCONNECTED", errMsg))
                        EXCEPT !.cause = [by |-> "rejected", from |-> "none"]]
  ELSE forward(e, f)

connect(e, s) ==
  LET e1 == setState(cleanup(e), "CONNECTING", Null) IN
  [e1 EXCEPT !.currentAuthToken = authToken(s),
             !.awaitIdentity = Append(@, s),
             !.cause = NoCause]

\* getOrCreateDeviceIdentity(): the stored record when there is one, else a
\* new identity that is persisted; "fail" when storage or key generation throws
identityAfter(rec, outcome) ==
  IF outcome = "fail" THEN Null
  ELSE IF rec # Null THEN rec ELSE outcome

\* connect() after `await getOrCreateDeviceIdentity()` of the i-th suspended
\* call; urlOk: `new WebSocket(url)` does not throw.  The socket ws referred
\* to stays as it is: open, with the handlers on it.
connectResume(e, i, outcome, urlOk) ==
  LET s == e.awaitIdentity[i]
      id == identityAfter(e.idbRecord, outcome)
      e1 == [e EXCEPT !.awaitIdentity =
                         SubSeq(@, 1, i - 1) \o SubSeq(@, i + 1, Len(@)),
                      !.deviceIdentity = id,
                      !.idbRecord = IF id # Null THEN id ELSE @]
  IN  IF ~urlOk THEN setState(e1, "DISCONNECTED", "invalid url")
      ELSE [e1 EXCEPT
              !.stale = IF e.ws.ready = "NONE" THEN @
                        ELSE BagAdd(@, [ready |-> e.ws.ready,
                                        settings |-> e.ws.settings,
                                        holdsId |-> e.connectId.at = "ws"]),
              !.connectId = IF @.at = "ws" THEN [@ EXCEPT !.at = "stale"] ELSE @,
              !.ws = [ready |-> "CONNECTING", settings |-> s, connectFrames |-> 0]]

\* ws.onopen: arms the send-delay timer; the handle forgets an armed one
onopen(e) ==
  [e EXCEPT !.strayConnect = IF e.connectTimer THEN @ + 1 ELSE @,
            !.connectTimer = TRUE]

\* onclose that retries after CONNECTED and CONNECTING alone
onclose_NoPairing(e, s, rnd) ==
  LET prevState == e.connection.state
      e1 == [cleanup(e) EXCEPT !.cause = [by |-> "close", from |-> prevState]]
  IN  IF prevState \in {"CONNECTED", "CONNECTING"}
      THEN scheduleReconnect(e1, s, rnd)
      ELSE setState(e1, "DISCONNECTED", Null)

\* ws.onclose of a socket whose handlers closed over settings s
onclose(e, s, rnd) ==
  LET prevState == e.connection.state
      e1 == [cleanup(e) EXCEPT !.cause = [by |-> "close", from |-> prevState]]
  IN  IF prevState \in {"CONNECTED", "CONNECTING", "PAIRING"}
      THEN scheduleReconnect(e1, s, rnd)
      ELSE setState(e1, "DISCONNECTED", Null)

\* heartbeat that gives up at three intervals already
heartbeat_AtThree(e, rnd) ==
  LET e0 == [e EXCEPT !.sinceBeat = 0] IN
  IF e.sinceTick >= HEARTBEAT_INTERVAL * 3
  THEN scheduleReconnect(
         [cleanup(e0) EXCEPT !.cause = [by |-> "heartbeat", from |-> "none"]],
         e.settings, rnd)
  ELSE e0

\* the callback of the heartbeat interval
heartbeat(e, rnd) ==
  LET e0 == [e EXCEPT !.sinceBeat = 0] IN
  IF e.sinceTick > HEARTBEAT_INTERVAL * 3
  THEN scheduleReconnect(
         [cleanup(e0) EXCEPT !.cause = [by |-> "heartbeat", from |-> "none"]],
         e.settings, rnd)
  ELSE e0

disconnect(e) ==
  [setState(cleanup(e), "DISCONNECTED", Null)
     EXCEPT !.cause = [by |-> "disconnect", from |-> "none"]]

\* ------------------------------------------- pending-table engine functions
PtIds == 1..MaxRequests
NoRequest == [kind |-> "none", key |-> Null, outcome |-> "none", calls |-> 0]

PtCur ==
  [ ptConnection |-> ptConnection, ptQueue |-> ptQueue, ptWs |-> ptWs,
    ptHeartbeatTimer |-> ptHeartbeatTimer, ptReconnectTimer |-> ptReconnectTimer,
    ptReconnectAttempt |-> ptReconnectAttempt,
    ptPendingRequests |-> ptPendingRequests, ptTimeouts |-> ptTimeouts,
    ptRequests |-> ptRequests, ptDirect |-> ptDirect, ptLast |-> ptLast ]

PtBecomes(p, op) ==
  /\ ptConnection' = p.ptConnection
  /\ ptQueue' = p.ptQueue
  /\ ptWs' = p.ptWs
  /\ ptHeartbeatTimer' = p.ptHeartbeatTimer
  /\ ptReconnectTimer' = p.ptReconnectTimer
  /\ ptReconnectAttempt' = p.ptReconnectAttempt
  /\ ptPendingRequests' = p.ptPendingRequests
  /\ ptTimeouts' = p.ptTimeouts
  /\ ptRequests' = p.ptRequests
  /\ ptDirect' = p.ptDirect
  /\ ptLast' = op
  /\ UNCHANGED << engineVars, stVars, sideVars >>

\* crypto.randomUUID(): an id nothing refers to any more
FreeIds(p) ==
  { i \in PtIds : /\ i \notin p.ptPendingRequests
                  /\ i \notin p.ptTimeouts
                  /\ p.ptRequests[i].outcome # "pending" }
NewId(p) == CHOOSE i \in FreeIds(p) : \A j \in FreeIds(p) : i <= j

PT_setState(p, st, err) ==
  [p EXCEPT !.ptConnection = [state |-> st, error |-> err]]

PT_stopHeartbeat(p) == [p EXCEPT !.ptHeartbeatTimer = FALSE]
PT_startHeartbeat(p) == [PT_stopHeartbeat(p) EXCEPT !.ptHeartbeatTimer = TRUE]

PT_send(p) == p.ptWs = "OPEN"

\* the .then and .catch completeTask puts on the promise of its direct send,
\* whose request carries the key wireKey: a rejection queues the action under
\* completeTask's own key
completeTask_settled(p, wireKey, how) ==
  LET acts == {k \in Keys : p.ptDirect[k] # Null /\ p.ptDirect[k] = wireKey} IN
  IF acts = {} THEN p
  ELSE LET a == CHOOSE k \in acts : TRUE IN
       IF how = "resolved" THEN [p EXCEPT !.ptDirect[a] = Null]
       ELSE IF how = "Not connected"
       THEN [p EXCEPT !.ptDirect[a] = Null, !.ptQueue = Append(@, a)]
       ELSE [p EXCEPT !.ptQueue = Append(@, a)]

\* resolve or reject of the promise of request id: the first call settles it
PT_settle(p, id, how) ==
  LET r == p.ptRequests[id]
      p1 == [p EXCEPT !.ptRequests[id].outcome = IF @ = "pending" THEN how ELSE @,
                      !.ptRequests[id].calls = @ + 1]
  IN  IF r.outcome = "pending" /\ r.kind = "chat" /\ r.key # Null
      THEN completeTask_settled(p1, r.key, how)
      ELSE p1

\* request(method, params): kind "chat" from sendMessage, "flush" from the
\* queue flush, which carries the key of its item
PT_request(p, kind, key) ==
  LET id == NewId(p)
      p1 == [p EXCEPT !.ptRequests[id] = [kind |-> kind, key |-> key,
                                          outcome |-> "pending", calls |-> 0],
                      !.ptTimeouts = @ \cup {id},
                      !.ptPendingRequests = @ \cup {id}]
  IN  IF PT_send(p1)
      THEN p1
      ELSE PT_settle([p1 EXCEPT !.ptTimeouts = @ \ {id},
                                !.ptPendingRequests = @ \ {id}],
                     id, "Not connected")

\* the forEach of cleanup() without its clearTimeout
RECURSIVE PT_rejectAll_KeepsTimeouts(_, _)
PT_rejectAll_KeepsTimeouts(p, ids) ==
  IF ids = {} THEN p
  ELSE LET id == CHOOSE i \in ids : \A j \in ids : i <= j
           p2 == PT_settle(p, id, "Connection closed")
           p3 == IF p.ptRequests[id].kind = "connect"
                 THEN PT_setState(p2, "DISCONNECTED", "Handshake timeout")
                 ELSE p2
       IN  PT_rejectAll_KeepsTimeouts(p3, ids \ {id})

\* pendingRequests.forEach(({reject, timeout}) => ...) of cleanup(); the
\* reject of the connect entry sets the state
RECURSIVE PT_rejectAll(_, _)
PT_rejectAll(p, ids) ==
  IF ids = {} THEN p
  ELSE LET id == CHOOSE i \in ids : \A j \in ids : i <= j
           p1 == [p EXCEPT !.ptTimeouts = @ \ {id}]
           p2 == PT_settle(p1, id, "Connection closed")
           p3 == IF p.ptRequests[id].kind = "connect"
                 THEN PT_setState(p2, "DISCONNECTED", "Handshake timeout")
                 ELSE p2
       IN  PT_rejectAll(p3, ids \ {id})

PT_cleanup(p) ==
  LET p1 == [PT_stopHeartbeat(p) EXCEPT !.ptReconnectTimer = FALSE]
      p2 == PT_rejectAll(p1, p1.ptPendingRequests)
  IN  [p2 EXCEPT !.ptPendingRequests = {}, !.ptWs = "NONE"]

PT_scheduleReconnect(p) ==
  [PT_setState(p, "RECONNECTING", Null)
     EXCEPT !.ptReconnectAttempt = @ + 1, !.ptReconnectTimer = TRUE]

\* flushQueue(settings): one request per item of the queue as it was at the
\* start
RECURSIVE PT_flushItems(_, _)
PT_flushItems(p, items) ==
  IF items = << >> THEN p
  ELSE PT_flushItems(PT_request(p, "flush", Head(items)), Tail(items))

PT_flushQueue(p) == PT_flushItems(p, p.ptQueue)

\* store.dequeue(idempotencyKey)
PT_dequeue(p, key) ==
  [p EXCEPT !.ptQueue = SelectSeq(@, LAMBDA k : k # key)]

\* resolve(frame) of the entry of id: the handshake callback of ws.onopen for
\* the connect entry, the promise of request() otherwise, with
\* .then(() => store.dequeue(key)) behind a flush
PT_resolve(p, id, ok) ==
  LET r == p.ptRequests[id]
      p1 == PT_settle(p, id, "resolved")
  IN  IF r.kind = "connect"
      THEN IF ok
           THEN PT_flushQueue(PT_startHeartbeat(
                  PT_setState([p1 EXCEPT !.ptReconnectAttempt = 0], "CONNECTED", Null)))
           ELSE PT_cleanup(PT_setState(p1, "DISCONNECTED", "rejected"))
      ELSE IF r.kind = "flush" /\ r.outcome = "pending"
      THEN PT_dequeue(p1, r.key)
      ELSE p1

\* a handleMessage that leaves the timeout of the answered request armed
PT_handleMessage_KeepsTimeout(p, f) ==
  IF f.id \in p.ptPendingRequests
  THEN PT_resolve([p EXCEPT !.ptPendingRequests = @ \ {f.id}], f.id, f.ok)
  ELSE p

\* handleMessage(raw): f.id is 0 for a frame that is not a response
PT_handleMessage(p, f) ==
  IF f.id \in p.ptPendingRequests
  THEN PT_resolve([p EXCEPT !.ptTimeouts = @ \ {f.id},
                            !.ptPendingRequests = @ \ {f.id}], f.id, f.ok)
  ELSE p

PT_connect(p, urlOk) ==
  LET p1 == PT_setState(PT_cleanup(p), "CONNECTING", Null) IN
  IF urlOk THEN [p1 EXCEPT !.ptWs = "CONNECTING"]
  ELSE PT_setState(p1, "DISCONNECTED", "invalid url")

\* ws.onopen: the connect entry and its 10 s timeout, then the connect frame
PT_onopen(p) ==
  LET id == NewId(p) IN
  [p EXCEPT !.ptWs = "OPEN",
            !.ptRequests[id] = [kind |-> "connect", key |-> Null,
                                outcome |-> "pending", calls |-> 0],
            !.ptTimeouts = @ \cup {id},
            !.ptPendingRequests = @ \cup {id}]

PT_onclose(p) ==
  LET wasConnected == p.ptConnection.state = "CONNECTED"
      p1 == PT_cleanup(p)
  IN  IF wasConnected \/ p1.ptConnection.state = "CONNECTING"
      THEN PT_scheduleReconnect(p1)
      ELSE PT_setState(p1, "DISCONNECTED", Null)

PT_disconnect(p) == PT_setState(PT_cleanup(p), "DISCONNECTED", Null)

\* a timeout callback that tears the session down whatever timed out
PT_timeout_TearsDown(p, id) ==
  LET p1 == [p EXCEPT !.ptTimeouts = @ \ {id}, !.ptPendingRequests = @ \ {id}] IN
  PT_cleanup(PT_setState(PT_settle(p1, id, "timed out"),
                         "DISCONNECTED", "Handshake timeout"))

\* the callback of the timeout of id: 15 s of a request, 10 s of the handshake
PT_timeout(p, id) ==
  LET p1 == [p EXCEPT !.ptTimeouts = @ \ {id}, !.ptPendingRequests = @ \ {id}] IN
  IF p.ptRequests[id].kind = "connect"
  THEN PT_cleanup(PT_setState(PT_settle(p1, id, "timed out"),
                              "DISCONNECTED", "Handshake timeout"))
  ELSE PT_settle(p1, id, "timed out")

PtFrames == [id : 0..MaxRequests, ok : BOOLEAN]

\* completeTask(taskId, text): key is its idempotencyKey, wireKey the one
\* gateway.sendMessage makes for its own request
completeTask(p, key, wireKey) ==
  IF p.ptConnection.state = "CONNECTED"
  THEN PT_request([p EXCEPT !.ptDirect[key] = wireKey], "chat", wireKey)
  ELSE [p EXCEPT !.ptQueue = Append(@, key)]

\* ------------------------------------------------------------- the store
StItems == [taskId : 1..MaxTaskId, idempotencyKey : {"k1", "k2"}]
ConnectionStates ==
  {"DISCONNECTED", "CONNECTING", "PAIRING", "CONNECTED", "RECONNECTING"}
NoStorage == [present |-> FALSE, text |-> << >>]

\* JSON.stringify and JSON.parse of an item: the number goes out as digits
stringifyItem(i) == << "taskId", ToString(i.taskId),
                       "idempotencyKey", i.idempotencyKey >>
parseNumber(s) == CHOOSE n \in 0..(MaxTaskId + 1) : ToString(n) = s
parseItem(x) == [taskId |-> parseNumber(x[2]), idempotencyKey |-> x[4]]

\* saveState that leaves the queue out as well
saveState_WithoutQueue(queue, conn) ==
  [present |-> TRUE, text |-> << >>]

\* saveState(state): everything but the connection, as text; the text of
\* the state is the sequence of the texts of the queue's items
saveState(queue, conn) ==
  [present |-> TRUE,
   text |-> << "pendingQueue", [n \in 1..Len(queue) |-> stringifyItem(queue[n])] >>]

\* loadState(): the defaults, overlaid with what was saved, the connection
\* reset
loadState(storage) ==
  IF storage.present /\ Len(storage.text) = 2
  THEN [pendingQueue |-> [n \in 1..Len(storage.text[2]) |-> parseItem(storage.text[2][n])],
        connection |-> "DISCONNECTED"]
  ELSE [pendingQueue |-> << >>, connection |-> "DISCONNECTED"]

\* ------------------------------------------------------ device identity
\* the callers of getOrCreateDeviceIdentity
Callers == {"connect", "testConnection"}

\* the record of key pair k; readable: importKey takes its jwk fields
Record(k, readable) == [version |-> 1, deviceId |-> k, readable |-> readable]
NoRecord == [version |-> 0, deviceId |-> 0, readable |-> FALSE]

\* ------------------------------------------------- device auth payload
\* A string is modelled as the sequence of its tokens.
\* Array.prototype.join(sep) over fields that are token sequences
RECURSIVE Join(_, _)
Join(fields, sep) ==
  IF fields = << >> THEN << >>
  ELSE IF Len(fields) = 1 THEN Head(fields)
  ELSE Head(fields) \o << sep >> \o Join(Tail(fields), sep)

\* the strings of an array, each as a field
AsFields(strings) == [i \in 1..Len(strings) |-> << strings[i] >>]

SCOPES == << "operator.read", "operator.write", "operator.admin" >>

\* the arguments of buildDeviceAuthPayload; Null stands for null and undefined
PayloadNonces == {"n1", "n2"}
PayloadFields ==
  [deviceId : {"devA", "devB"}, clientId : {"webchat"}, clientMode : {"webchat"},
   role : {"operator"}, scopes : {<< >>, << "operator.read" >>, SCOPES},
   signedAtMs : {0, 1700, 1701}, token : {Null, "", "tok"},
   nonce : {Null, ""} \cup PayloadNonces]
NoFields ==
  [deviceId |-> Null, clientId |-> Null, clientMode |-> Null, role |-> Null,
   scopes |-> << >>, signedAtMs |-> 0, token |-> Null, nonce |-> Null]

\* the truthiness of a string or null
Truthy(x) == x # Null /\ x # ""

\* buildDeviceAuthPayload that puts the nonce before the token
buildDeviceAuthPayload_NonceBeforeToken(p) ==
  LET version == IF Truthy(p.nonce) THEN "v2" ELSE "v1"
      base == << << version >>, << p.deviceId >>, << p.clientId >>,
                 << p.clientMode >>, << p.role >>,
                 Join(AsFields(p.scopes), ","), << ToString(p.signedAtMs) >> >>
      tok == << << IF p.token = Null THEN "" ELSE p.token >> >>
      non == << << IF p.nonce = Null THEN "" ELSE p.nonce >> >>
  IN  Join(IF version = "v2" THEN base \o non \o tok ELSE base \o tok, "|")

\* buildDeviceAuthPayload({deviceId, clientId, clientMode, role, scopes,
\* signedAtMs, token, nonce})
buildDeviceAuthPayload(p) ==
  LET version == IF Truthy(p.nonce) THEN "v2" ELSE "v1"
      base == << << version >>, << p.deviceId >>, << p.clientId >>,
                 << p.clientMode >>, << p.role >>,
                 Join(AsFields(p.scopes), ","), << ToString(p.signedAtMs) >>,
                 << IF p.token = Null THEN "" ELSE p.token >> >>
      pushed == IF version = "v2"
                THEN Append(base, << IF p.nonce = Null THEN "" ELSE p.nonce >>)
                ELSE base
  IN  Join(pushed, "|")

\* ---------------------------------------------------------- task parser
\* A text is the sequence of its characters.
NoMatch == [ok |-> FALSE, caps |-> << >>, end |-> 0]
NoCaps == [g \in 1..5 |-> << 1, 0 >>]

\* the elements of a pattern
Lit(s, ci) == [k |-> "lit", s |-> s, ci |-> ci, cls |-> "", min |-> 0, cap |-> 0, alts |-> << >>]
Opt(s, ci) == [k |-> "opt", s |-> s, ci |-> ci, cls |-> "", min |-> 0, cap |-> 0, alts |-> << >>]
Rep(cls, min, cap) ==
  [k |-> "rep", s |-> << >>, ci |-> FALSE, cls |-> cls, min |-> min, cap |-> cap, alts |-> << >>]
Lazy(cls) ==
  [k |-> "lazy", s |-> << >>, ci |-> FALSE, cls |-> cls, min |-> 0, cap |-> 0, alts |-> << >>]
Alt(alts, cap) ==
  [k |-> "alt", s |-> << >>, ci |-> FALSE, cls |-> "", min |-> 0, cap |-> cap, alts |-> alts]
End == [k |-> "end", s |-> << >>, ci |-> FALSE, cls |-> "", min |-> 0, cap |-> 0, alts |-> << >>]

Digits == << "0", "1", "2", "3", "4", "5", "6", "7", "8", "9" >>
IsDigit(c) == \E d \in 1..10 : Digits[d] = c
IsSpace(c) == c \in {" ", "\n"}
InClass(c, cls) ==
  CASE cls = "space" -> IsSpace(c)
    [] cls = "digit" -> IsDigit(c)
    [] cls = "colonspace" -> c = ":" \/ IsSpace(c)
    [] cls = "digitcomma" -> c = "," \/ IsDigit(c)
    [] cls = "dot" -> c # "\n"

\* the lower case of the letters the patterns name
Lower(c) ==
  CASE c = "D" -> "d" [] c = "S" -> "s" [] c = "H" -> "h" [] c = "X" -> "x"
    [] c = "P" -> "p" [] c = "L" -> "l" [] OTHER -> c

\* the literal s stands in text t at position i
LitAt(t, i, s, ci) ==
  /\ i + Len(s) - 1 <= Len(t)
  /\ \A j \in 1..Len(s) :
       IF ci THEN Lower(t[i + j - 1]) = Lower(s[j]) ELSE t[i + j - 1] = s[j]

\* the length of the run of characters of class cls from position i
RECURSIVE Run(_, _, _)
Run(t, i, cls) ==
  IF i > Len(t) \/ ~InClass(t[i], cls) THEN 0 ELSE 1 + Run(t, i + 1, cls)

\* the backtracking match of the elements k.. of pat at position i of t:
\* the first match in the order a regular expression engine tries them
RECURSIVE Match(_, _, _, _, _)
RECURSIVE TryDown(_, _, _, _, _, _)
RECURSIVE TryUp(_, _, _, _, _, _, _)
RECURSIVE TryAlts(_, _, _, _, _, _)
Match(t, pat, i, k, caps) ==
  IF k > Len(pat) THEN [ok |-> TRUE, caps |-> caps, end |-> i]
  ELSE LET el == pat[k] IN
    CASE el.k = "lit" ->
           IF LitAt(t, i, el.s, el.ci)
           THEN Match(t, pat, i + Len(el.s), k + 1, caps) ELSE NoMatch
      [] el.k = "opt" ->
           LET with == IF LitAt(t, i, el.s, el.ci)
                       THEN Match(t, pat, i + Len(el.s), k + 1, caps) ELSE NoMatch
           IN  IF with.ok THEN with ELSE Match(t, pat, i, k + 1, caps)
      [] el.k = "rep" -> TryDown(t, pat, i, k, caps, Run(t, i, el.cls))
      [] el.k = "lazy" -> TryUp(t, pat, i, k, caps, 0, Run(t, i, el.cls))
      [] el.k = "alt" -> TryAlts(t, pat, i, k, caps, 1)
      [] el.k = "end" ->
           IF i = Len(t) + 1 THEN Match(t, pat, i, k + 1, caps) ELSE NoMatch
TryDown(t, pat, i, k, caps, n) ==
  IF n < pat[k].min THEN NoMatch
  ELSE LET c1 == IF pat[k].cap > 0
                 THEN [caps EXCEPT ![pat[k].cap] = << i, i + n - 1 >>] ELSE caps
           r == Match(t, pat, i + n, k + 1, c1)
       IN  IF r.ok THEN r ELSE TryDown(t, pat, i, k, caps, n - 1)
TryUp(t, pat, i, k, caps, n, max) ==
  IF n > max THEN NoMatch
  ELSE LET r == Match(t, pat, i + n, k + 1, caps)
       IN  IF r.ok THEN r ELSE TryUp(t, pat, i, k, caps, n + 1, max)
TryAlts(t, pat, i, k, caps, j) ==
  IF j > Len(pat[k].alts) THEN NoMatch
  ELSE LET s == pat[k].alts[j]
           c1 == [caps EXCEPT ![pat[k].cap] = << i, i + Len(s) - 1 >>]
           r == IF LitAt(t, i, s, FALSE)
                THEN Match(t, pat, i + Len(s), k + 1, c1) ELSE NoMatch
       IN  IF r.ok THEN r ELSE TryAlts(t, pat, i, k, caps, j + 1)

\* String.prototype.match(pattern) of a pattern without ^: the match at the
\* leftmost position that has one
RECURSIVE Search(_, _, _)
Search(t, pat, i) ==
  IF i > Len(t) + 1 THEN NoMatch
  ELSE LET r == Match(t, pat, i, 1, NoCaps)
       IN  IF r.ok THEN r ELSE Search(t, pat, i + 1)

Group(t, m, g) == SubSeq(t, m.caps[g][1], m.caps[g][2])

Gap == << Rep("space", 0, 0), Opt(<< "|" >>, TRUE), Rep("space", 0, 0), Lazy("dot") >>
STATS_PATTERN ==
  << Lit(<< "d", "a", "y" >>, TRUE), Rep("space", 1, 0), Rep("digit", 1, 1) >>
    \o Gap \o
  << Lit(<< "s", "t", "r", "e", "a", "k" >>, TRUE), Rep("colonspace", 1, 0),
     Rep("digit", 1, 2) >>
    \o Gap \o
  << Lit(<< "h", "e", "a", "r", "t" >>, TRUE), Opt(<< "s" >>, TRUE),
     Rep("colonspace", 1, 0), Rep("digit", 1, 3) >>
    \o Gap \o
  << Lit(<< "x", "p" >>, TRUE), Rep("colonspace", 1, 0), Rep("digitcomma", 1, 4) >>
    \o Gap \o
  << Lit(<< "l", "e", "v", "e", "l" >>, TRUE), Rep("colonspace", 1, 0),
     Rep("digit", 1, 5) >>

\* the marks of a task line, in the order of the pattern; "<done>" and
\* "<open>" stand for the check mark and the box, "<vs>" for the selector
\* that may follow the box
CheckMarks ==
  << << "<done>" >>, << "<open>", "<vs>" >>, << "<open>" >>,
     << "[", "x", "]" >>, << "[", " ", "]" >>, << "[", "]" >> >>
TASK_LINE_PATTERN ==
  << Rep("space", 0, 0), Rep("digit", 1, 1), Lit(<< "." >>, FALSE),
     Rep("space", 0, 0), Alt(CheckMarks, 2), Rep("space", 0, 0),
     Rep("dot", 1, 3), End >>

\* parseInt(digits, 10); NaN when there is no digit
NaN == 0 - 1
RECURSIVE DigitsValue(_)
DigitsValue(s) ==
  IF s = << >> THEN 0
  ELSE 10 * DigitsValue(SubSeq(s, 1, Len(s) - 1))
       + (CHOOSE d \in 0..9 : Digits[d + 1] = s[Len(s)])
parseInt(s) ==
  LET n == Run(s, 1, "digit") IN
  IF n = 0 THEN NaN ELSE DigitsValue(SubSeq(s, 1, n))

\* String.prototype.replace(/,/g, '')
WithoutCommas(s) == SelectSeq(s, LAMBDA c : c # ",")

\* String.prototype.trim()
RECURSIVE trim(_)
trim(s) ==
  IF s = << >> THEN s
  ELSE IF IsSpace(Head(s)) THEN trim(Tail(s))
  ELSE IF IsSpace(s[Len(s)]) THEN trim(SubSeq(s, 1, Len(s) - 1))
  ELSE s

\* String.prototype.split('\n')
RECURSIVE split(_)
split(t) ==
  IF \A i \in 1..Len(t) : t[i] # "\n" THEN << t >>
  ELSE LET n == CHOOSE i \in 1..Len(t) : t[i] = "\n" /\ \A j \in 1..(i - 1) : t[j] # "\n"
       IN  << SubSeq(t, 1, n - 1) >> \o split(SubSeq(t, n + 1, Len(t)))

\* the value null of parseTaskMessage, and the stats of a result without any
NoData == [data |-> FALSE, day |-> NaN, hasStats |-> FALSE,
           stats |-> << >>, items |-> << >>]

\* the loop of parseTaskMessage over the lines
RECURSIVE TaskItems(_)
TaskItems(lines) ==
  IF lines = << >> THEN << >>
  ELSE LET line == Head(lines)
           m == Match(line, TASK_LINE_PATTERN, 1, 1, NoCaps)
           check == Group(line, m, 2)
       IN  (IF m.ok
            THEN << [id |-> parseInt(Group(line, m, 1)),
                     text |-> trim(Group(line, m, 3)),
                     completed |-> check \in {<< "<done>" >>, << "[", "x", "]" >>}] >>
            ELSE << >>)
           \o TaskItems(Tail(lines))

\* parseTaskMessage that returns a record whatever the text holds
parseTaskMessage_AlwaysRecord(text) ==
  [data |-> TRUE, day |-> NaN, hasStats |-> FALSE, stats |-> << >>,
   items |-> TaskItems(split(text))]

\* parseTaskMessage(text)
parseTaskMessage(text) ==
  IF text = << >> THEN NoData
  ELSE LET statsMatch == Search(text, STATS_PATTERN, 1)
           items == TaskItems(split(text))
       IN  IF ~statsMatch.ok /\ items = << >> THEN NoData
           ELSE [data |-> TRUE,
                 day |-> IF statsMatch.ok THEN parseInt(Group(text, statsMatch, 1)) ELSE NaN,
                 hasStats |-> statsMatch.ok,
                 stats |-> IF statsMatch.ok
                           THEN << parseInt(Group(text, statsMatch, 2)),
                                   parseInt(Group(text, statsMatch, 3)),
                                   parseInt(WithoutCommas(Group(text, statsMatch, 4))),
                                   parseInt(Group(text, statsMatch, 5)) >>
                           ELSE << >>,
                 items |-> items]

\* the messages the agent streams
MsgFull ==
  << "D", "a", "y", " ", "4", " ", "|", " ", "S", "t", "r", "e", "a", "k",
     ":", " ", "1", " ", "H", "e", "a", "r", "t", ":", "2", " ", "X", "P",
     ":", "1", ",", "0", " ", "L", "e", "v", "e", "l", ":", "5", "\n", "1",
     ".", "[", "x", "]", "a", "b", "\n", "2", ".", " ", "<open>", " ", "c" >>
MsgTasks ==
  << "1", ".", " ", "<done>", " ", "a", "\n", "2", ".", "[", " ", "]", " ",
     "b", " ", "\n", "e", "n", "d" >>
MsgStats ==
  << "d", "a", "y", " ", "1", "2", "|", "s", "t", "r", "e", "a", "k", " ",
     "3", "|", "h", "e", "a", "r", "t", "s", " ", "2", "|", "x", "p", " ",
     "7", "|", "l", "e", "v", "e", "l", " ", "1" >>
MsgNone ==
  << "H", "i", "\n", "D", "a", "y", " ", "4", " ", "S", "t", "r", "e", "a",
     "k", "\n", "1", ".", "[", "X", "]", " ", "a", "\n", "3", ".", " ", "b" >>
Messages == << MsgFull, MsgTasks, MsgStats, MsgNone, << >> >>

\* append(delta) that starts the buffer over
append_Replaces(buffer, delta) == delta

\* createDeltaAccumulator(): append(delta), parse()
append(buffer, delta) == buffer \o delta
parse(buffer) == parseTaskMessage(buffer)
reset(buffer) == << >>

\* a parse() that takes what it parsed off the buffer
parseCall_Consumes(buffer) ==
  [buffer |-> IF parse(buffer).data THEN << >> ELSE buffer,
   returned |-> parse(buffer)]

\* the call parse(): the buffer it leaves and the value it returns
parseCall(buffer) == [buffer |-> buffer, returned |-> parse(buffer)]

\* ------------------------------------------------- tasks view functions
\* defaultState.tasks; a day of null is NaN here, as in a parse result
defaultTasks ==
  [day |-> NaN, stats |-> << 0, 0, 0, 1 >>, items |-> << >>, rawMessage |-> Null]

\* a frame as the '*' listener reads it: its text, and whether it says that
\* the message is complete
StarFrame(text, done) == [text |-> text, done |-> done]

\* applyParsedTasks(parsed) on the tasks tk of the store
applyParsedTasks(tk, parsed) ==
  [day |-> IF parsed.hasStats THEN parsed.day ELSE tk.day,
   stats |-> IF parsed.hasStats THEN parsed.stats ELSE tk.stats,
   items |-> IF Len(parsed.items) > 0 THEN parsed.items ELSE tk.items,
   rawMessage |-> Null]

\* the '*' listener of setupEventListener, on the view v
\* {tasks, buffer, parsed, last, applied}
starListener(v, frame) ==
  LET none == [v EXCEPT !.applied = NoData]
      a == IF frame.text # << >>
           THEN [none EXCEPT !.buffer = append(v.buffer, frame.text),
                             !.parsed = parse(append(v.buffer, frame.text)),
                             !.last = "parse"]
           ELSE none
  IN  IF frame.text # << >> /\ a.parsed.data /\ Len(a.parsed.items) > 0
      THEN [a EXCEPT !.tasks = applyParsedTasks(v.tasks, a.parsed),
                     !.applied = a.parsed,
                     !.buffer = reset(a.buffer),
                     !.last = "reset"]
      ELSE IF frame.done /\ a.buffer # << >>
           THEN LET parsed == parse(a.buffer)
                IN  IF parsed.data
                    THEN [a EXCEPT !.tasks = applyParsedTasks(v.tasks, parsed),
                                   !.applied = parsed,
                                   !.parsed = parsed,
                                   !.buffer = reset(a.buffer),
                                   !.last = "reset"]
                    ELSE [a EXCEPT !.tasks = [v.tasks EXCEPT !.rawMessage = a.buffer],
                                   !.parsed = parsed,
                                   !.buffer = reset(a.buffer),
                                   !.last = "reset"]
           ELSE a

\* ------------------------------------------------------------- actions
\* The limits of one specification: how many attempts, suspended calls, stray
\* timers and retries its environment goes to, and the draws of Math.random()
\* (in hundredths) it takes.
CoreLimits ==
  [load |-> MaxLoad, attempt |-> CoreAttempts, rnd |-> {0}, payloads |-> FALSE,
   own |-> FALSE]

Load ==
  StaleCount(stale) + Len(awaitIdentity) + Len(awaitSign) + strayConnect
    + Len(strayReconnect)
\* scheduleReconnect() counts one more retry; the handle forgets an armed timer
WillSchedule(L) ==
  reconnectAttempt < L.attempt /\ (reconnectTimer.armed => Load < L.load)
\* sendConnect() suspends at the signature when there is an identity
CanAwaitSign(L) ==
  connectSent \/ deviceIdentity = Null \/ Load < L.load
\* connect() suspends at the identity
CanConnect(L) == Load < L.load

\* What a specification keeps of the connect requests: with L.payloads the
\* token and nonce each suspended sendConnect() signed and the request the
\* step built; without, only how many calls are suspended.  With L.own it
\* keeps the number of 'tick' listeners the engine has registered.
Kept(L, e) ==
  LET e1 == IF L.payloads THEN e
            ELSE [e EXCEPT !.awaitSign = [i \in DOMAIN @ |-> NoPayload],
                           !.connectFrame = NoFrame]
  IN  IF L.own THEN e1 ELSE [e1 EXCEPT !.tickListeners = 0]

\* the sockets that carry the handlers: ws, and each kind in the bag
Attached ==
  { [cur |-> TRUE, ready |-> ws.ready, settings |-> ws.settings,
     holdsId |-> connectId.at = "ws"] : x \in IF ws.ready = "NONE" THEN {} ELSE {1} }
    \cup { [cur |-> FALSE, ready |-> q.ready, settings |-> q.settings,
            holdsId |-> q.holdsId] : q \in {x \in StaleKinds : stale[x] > 0} }
KindOf(a) == [ready |-> a.ready, settings |-> a.settings, holdsId |-> a.holdsId]

Init ==
  /\ connection = [state |-> "DISCONNECTED", error |-> Null]
  /\ settings = "cfgA"
  /\ pendingQueue = << >>
  /\ ws = NoSocket
  /\ stale = [q \in StaleKinds |-> 0]
  /\ heartbeatTimer = FALSE
  /\ reconnectTimer = NoTimer
  /\ connectTimer = FALSE
  /\ strayReconnect = << >>
  /\ strayConnect = 0
  /\ reconnectAttempt = 0
  /\ authenticated = FALSE
  /\ connectSent = FALSE
  /\ currentAuthToken = Null
  /\ connectId = NoId
  /\ challengeNonce = Null
  /\ deviceIdentity = Null
  /\ sinceTick = 0
  /\ sinceBeat = 0
  /\ awaitIdentity = << >>
  /\ awaitSign = << >>
  /\ idbRecord = Null
  /\ lastBase = 0
  /\ cause = NoCause
  /\ wire = NoWire
  /\ lastSend = NoSend
  /\ eventHandlers = {}
  /\ invoked = NotInvoked
  /\ thrown = Null
  /\ flushKey = Null
  /\ connectFrame = NoFrame
  /\ view = [subscribed |-> FALSE, hasFetchedTasks |-> FALSE, connected |-> 0]
  /\ fetched = 0
  /\ tickListeners = 0
  /\ ptConnection = [state |-> "DISCONNECTED", error |-> Null]
  /\ ptQueue = << >>
  /\ ptWs = "NONE"
  /\ ptHeartbeatTimer = FALSE
  /\ ptReconnectTimer = FALSE
  /\ ptReconnectAttempt = 0
  /\ ptPendingRequests = {}
  /\ ptTimeouts = {}
  /\ ptRequests = [i \in PtIds |-> NoRequest]
  /\ ptDirect = [k \in Keys |-> Null]
  /\ ptLast = "none"
  /\ stStorage = NoStorage
  /\ stQueue = loadState(NoStorage).pendingQueue
  /\ stConnection = loadState(NoStorage).connection
  /\ stLast = "none"
  /\ idb = NoRecord
  /\ idPc = [c \in Callers |-> "idle"]
  /\ idStored = [c \in Callers |-> NoRecord]
  /\ idKey = [c \in Callers |-> 0]
  /\ idResult = [c \in Callers |-> 0]
  /\ idNext = 1
  /\ payIn = NoFields
  /\ payOut = << >>
  /\ accBuffer = << >>
  /\ accParsed = NoData
  /\ accMsg = 1
  /\ accLast = "none"
  /\ tasks = defaultTasks
  /\ tkPos = 0
  /\ applied = NoData
  /\ userAction = NoAction

\* gateway.connect(settings), called by the presentation layer with the
\* settings of the store
Connect(L) ==
  /\ CanConnect(L)
  /\ \E e \in {connect(Cur, settings)} : Becomes(e)

\* the identity promise of a suspended connect() settles
ConnectResume(L) ==
  \E i \in 1..Len(awaitIdentity), outcome \in DeviceIds \cup {"fail"}, urlOk \in BOOLEAN :
    \E e \in {connectResume(Cur, i, outcome, urlOk)} : Becomes(e)

\* gateway.disconnect()
Disconnect(L) ==
  \E e \in {disconnect(Cur)} : Becomes(e)

\* ws.onopen of a socket that carries the handlers
SocketOpen(L) ==
  \E a \in Attached :
    /\ a.ready = "CONNECTING"
    /\ connectTimer => Load < L.load
    /\ LET e0 == IF a.cur THEN [Cur EXCEPT !.ws.ready = "OPEN"]
                 ELSE [Cur EXCEPT !.stale =
                         BagAdd(BagDel(@, KindOf(a)), [KindOf(a) EXCEPT !.ready = "OPEN"])]
       IN  \E e \in {onopen(e0)} : Becomes(e)

\* ws.onmessage: the gateway sends frame f on a socket.  A response can carry
\* the id in connectId only on the socket that connect request was written to.
Receive(L, a, f) ==
  /\ a.ready = "OPEN"
  /\ f.idMatch => a.holdsId
  /\ CanAwaitSign(L)
  /\ \E e \in {Kept(L, handleMessage(Cur, f, a.settings))} : Becomes(e)

SocketMessage(L) ==
  \E a \in Attached, f \in Frames : Receive(L, a, f)

\* ws.onclose of a socket that carries the handlers; the closed socket is gone
SocketClose(L) ==
  \E a \in Attached, rnd \in L.rnd :
    /\ WillSchedule(L)
    /\ LET e0 == IF a.cur THEN Cur
                 ELSE [Cur EXCEPT !.stale = BagDel(@, KindOf(a))]
       IN  \E e \in {onclose(e0, a.settings, rnd)} : Becomes(e)

\* a send-delay timer fires: () => sendConnect()
ConnectTimerFire(L) ==
  \E stray \in BOOLEAN :
    /\ IF stray THEN strayConnect > 0 ELSE connectTimer
    /\ CanAwaitSign(L)
    /\ \E e \in {Kept(L, sendConnect([Cur EXCEPT
                    !.strayConnect = IF stray THEN @ - 1 ELSE @,
                    !.connectTimer = IF stray THEN @ ELSE FALSE]))} : Becomes(e)

\* the signature promise of a suspended sendConnect() settles
SignResume(L) ==
  \E i \in 1..Len(awaitSign), signed \in BOOLEAN :
    \E e \in {Kept(L, sendConnectResume(Cur, i, signed))} : Becomes(e)

\* a retry timer fires: () => gateway.connect(settings)
ReconnectTimerFire(L) ==
  \E i \in 0..Len(strayReconnect) :
    /\ i = 0 => reconnectTimer.armed
    /\ CanConnect(L)
    /\ LET t == IF i = 0 THEN reconnectTimer ELSE strayReconnect[i]
           e0 == IF i = 0 THEN [Cur EXCEPT !.reconnectTimer = NoTimer]
                 ELSE [Cur EXCEPT !.strayReconnect =
                         SubSeq(@, 1, i - 1) \o SubSeq(@, i + 1, Len(@))]
       IN  \E e \in {connect(e0, t.settings)} : Becomes(e)

\* time passes while the heartbeat interval is armed and not due
ClockTick(L) ==
  /\ heartbeatTimer
  /\ sinceBeat < HEARTBEAT_INTERVAL
  /\ \E e \in {[Cur EXCEPT !.sinceBeat = @ + ClockStep,
                           !.sinceTick = Min(@ + ClockStep, ClockCap)]} : Becomes(e)

\* the heartbeat interval fires
HeartbeatFire(L) ==
  \E rnd \in L.rnd :
    /\ heartbeatTimer
    /\ sinceBeat = HEARTBEAT_INTERVAL
    /\ WillSchedule(L)
    /\ \E e \in {heartbeat(Cur, rnd)} : Becomes(e)

Engine(L) ==
  \/ Connect(L)
  \/ ConnectResume(L)
  \/ Disconnect(L)
  \/ SocketOpen(L)
  \/ SocketMessage(L)
  \/ SocketClose(L)
  \/ ConnectTimerFire(L)
  \/ SignResume(L)
  \/ ReconnectTimerFire(L)
  \/ ClockTick(L)
  \/ HeartbeatFire(L)

Next == Engine(CoreLimits)

Spec == Init /\ [][Next]_vars

\* Timers fire, time passes and suspended calls resume; what the gateway and
\* the presentation layer do is up to them.
FairSpec ==
  /\ Init /\ [][Next]_vars
  /\ WF_vars(ConnectResume(CoreLimits))
  /\ WF_vars(SignResume(CoreLimits))
  /\ WF_vars(ConnectTimerFire(CoreLimits))
  /\ WF_vars(ReconnectTimerFire(CoreLimits))
  /\ WF_vars(ClockTick(CoreLimits))
  /\ WF_vars(HeartbeatFire(CoreLimits))

\* The engine with one attempt at a time, and the presentation layer using
\* the offline queue and sendMessage().
QueueLimits ==
  [load |-> BackoffLoad, attempt |-> CoreAttempts, rnd |-> {0}, payloads |-> FALSE,
   own |-> FALSE]

\* the key of a new item is fresh: the first one the queue does not hold
Enqueue ==
  /\ Len(pendingQueue) < MaxQueue
  /\ LET free == {k \in Keys : \A i \in 1..Len(pendingQueue) : pendingQueue[i] # k}
         key == CHOOSE k \in free : \A j \in free : KeyRank(k) <= KeyRank(j)
     IN  \E e \in {enqueue(Cur, key)} : Becomes(e)

ClearQueue ==
  /\ Len(pendingQueue) > 0
  /\ \E e \in {clearQueue(Cur)} : Becomes(e)

SendMessage == \E e \in {sendMessage(Cur)} : Becomes(e)

\* saveSettings(): store.update('settings', ...) with the values of the form
SaveSettings ==
  \E s \in SettingsSet :
    /\ s # settings
    /\ \E e \in {subscriber([Cur EXCEPT !.settings = s])} : Becomes(e)

\* The engine with overlapping attempts and the user changing the settings,
\* keeping what the connect requests carry.
SignLimits ==
  [load |-> MaxLoad, attempt |-> CoreAttempts, rnd |-> {0}, payloads |-> TRUE,
   own |-> FALSE]
NextSign ==
  \/ Engine(SignLimits)
  \/ SaveSettings
SpecSign == Init /\ [][NextSign]_vars

\* The engine with one attempt at a time, the offline queue, and the user
\* changing the settings.
SettingsLimits ==
  [load |-> BackoffLoad, attempt |-> CoreAttempts, rnd |-> {0}, payloads |-> FALSE,
   own |-> FALSE]
NextSettings ==
  \/ Engine(SettingsLimits)
  \/ Enqueue
  \/ SaveSettings
SpecSettings == Init /\ [][NextSettings]_vars

\* the router shows the main view
RenderMain ==
  /\ view.connected < MaxRenders
  /\ \E e \in {renderMain(Cur)} : Becomes(e)

\* The engine with one attempt at a time, and the main view being rendered.
FetchLimits ==
  [load |-> BackoffLoad, attempt |-> CoreAttempts, rnd |-> {0}, payloads |-> FALSE,
   own |-> FALSE]
NextFetch ==
  \/ Engine(FetchLimits)
  \/ RenderMain
SpecFetch == Init /\ [][NextFetch]_vars

\* The engine with one attempt at a time, keeping count of its own listeners.
OwnLimits ==
  [load |-> BackoffLoad, attempt |-> CoreAttempts, rnd |-> {0}, payloads |-> FALSE,
   own |-> TRUE]
NextOwn == Engine(OwnLimits)
SpecOwn == Init /\ [][NextOwn]_vars

\* the user completes a task
CompleteTask ==
  LET free == {k \in Keys : \A i \in 1..Len(pendingQueue) : pendingQueue[i] # k}
      key == CHOOSE k \in free : \A j \in free : KeyRank(k) <= KeyRank(j)
      r == completeTaskOn(Cur, key)
  IN  /\ Len(r.e.pendingQueue) <= MaxQueue
      /\ Assign(r.e)
      /\ userAction' = r.action
      /\ UNCHANGED << ptVars, stVars, idVars, payVars, accVars, tkVars >>

\* the gateway receives the frame of a completion that was written to ws
RemoteReceives ==
  /\ userAction.fate = "written"
  /\ ws.ready = "OPEN"
  /\ Assign(Cur)
  /\ userAction' = [userAction EXCEPT !.fate = "received"]
  /\ UNCHANGED << ptVars, stVars, idVars, payVars, accVars, tkVars >>

\* The engine with one attempt at a time, and the user completing tasks.
ActionLimits ==
  [load |-> BackoffLoad, attempt |-> CoreAttempts, rnd |-> {0}, payloads |-> FALSE,
   own |-> FALSE]
NextAction ==
  \/ Engine(ActionLimits)
  \/ CompleteTask
  \/ RemoteReceives
SpecAction == Init /\ [][NextAction]_vars

NextQueue ==
  \/ Engine(QueueLimits)
  \/ Enqueue
  \/ ClearQueue
  \/ SendMessage

SpecQueue == Init /\ [][NextQueue]_vars

\* One attempt at a time, many retries in a row, jitter at both ends.
BackoffLimits ==
  [load |-> BackoffLoad, attempt |-> MaxAttempt, rnd |-> {0, 99}, payloads |-> FALSE,
   own |-> FALSE]
NextBackoff == Engine(BackoffLimits)
SpecBackoff == Init /\ [][NextBackoff]_vars

\* ws.onmessage with the payload as the socket delivers it
ReceiveRaw(L, a, data) ==
  /\ a.ready = "OPEN"
  /\ parseFrame(data).idMatch => a.holdsId
  /\ CanAwaitSign(L)
  /\ \E e \in {Kept(L, handleMessage(Cur, parseFrame(data), a.settings))} : Becomes(e)

SocketPayload(L) ==
  \E a \in Attached, data \in Payloads : ReceiveRaw(L, a, data)

RawLimits ==
  [load |-> BackoffLoad, attempt |-> CoreAttempts, rnd |-> {0}, payloads |-> FALSE,
   own |-> FALSE]
NextRaw == Engine(RawLimits) \/ SocketPayload(RawLimits)
SpecRaw == Init /\ [][NextRaw]_vars

ListenLimits ==
  [load |-> BackoffLoad, attempt |-> CoreAttempts, rnd |-> {0}, payloads |-> FALSE,
   own |-> FALSE]

\* gateway.on(event, handler)
On ==
  \E l \in Listeners :
    /\ Cardinality(eventHandlers \cup {l}) <= MaxListeners
    /\ \E e \in {on(Cur, l)} : Becomes(e)

\* gateway.off(event, handler), and the handle on() returned
Off ==
  \E l \in eventHandlers : \E e \in {off(Cur, l)} : Becomes(e)

NextListen == Engine(ListenLimits) \/ On \/ Off
SpecListen == Init /\ [][NextListen]_vars

\* ------------------------------------------- pending-table engine actions
PtConnect ==
  \E urlOk \in BOOLEAN : \E p \in {PT_connect(PtCur, urlOk)} : PtBecomes(p, "connect")

PtDisconnect ==
  \E p \in {PT_disconnect(PtCur)} : PtBecomes(p, "disconnect")

PtSocketOpen ==
  /\ ptWs = "CONNECTING"
  /\ FreeIds(PtCur) # {}
  /\ \E p \in {PT_onopen(PtCur)} : PtBecomes(p, "open")

\* the gateway answers requests it was sent, and sends events
PtSocketMessage ==
  \E f \in PtFrames :
    /\ ptWs = "OPEN"
    /\ Cardinality(FreeIds(PtCur)) >= Len(ptQueue)
    /\ \E p \in {PT_handleMessage(PtCur, f)} : PtBecomes(p, "message")

PtSocketClose ==
  /\ ptWs # "NONE"
  /\ ptReconnectAttempt < PtAttempts
  /\ \E p \in {PT_onclose(PtCur)} : PtBecomes(p, "close")

PtTimeout(id) ==
  /\ id \in ptTimeouts
  /\ \E p \in {PT_timeout(PtCur, id)} : PtBecomes(p, "timeout")

PtTimeoutFire == \E id \in PtIds : PtTimeout(id)

PtReconnectTimerFire ==
  /\ ptReconnectTimer
  /\ \E urlOk \in BOOLEAN :
       \E p \in {PT_connect([PtCur EXCEPT !.ptReconnectTimer = FALSE], urlOk)} :
         PtBecomes(p, "retry")

\* the heartbeat interval: a ping when the socket is open
PtHeartbeatFire ==
  /\ ptHeartbeatTimer
  /\ PtBecomes(PtCur, "ping")

\* gateway.sendMessage(text)
PtSendMessage ==
  /\ Cardinality(FreeIds(PtCur)) > MaxQueue
  /\ \E p \in {PT_request(PtCur, "chat", Null)} : PtBecomes(p, "send")

\* crypto.randomUUID(): the keys nothing carries
PtFreeKeys ==
  {k \in Keys : /\ \A i \in PtIds : ptRequests[i].key # k
                /\ \A i \in 1..Len(ptQueue) : ptQueue[i] # k
                /\ \A a \in Keys : ptDirect[a] # k
                /\ ptDirect[k] = Null}

\* store.enqueue(item): the key of a new item is fresh
PtEnqueue ==
  /\ Len(ptQueue) < MaxQueue
  /\ LET free == PtFreeKeys
     IN  /\ free # {}
         /\ LET key == CHOOSE k \in free : \A j \in free : KeyRank(k) <= KeyRank(j)
            IN  PtBecomes([PtCur EXCEPT !.ptQueue = Append(@, key)], "enqueue")

NextPT ==
  \/ PtConnect
  \/ PtDisconnect
  \/ PtSocketOpen
  \/ PtSocketMessage
  \/ PtSocketClose
  \/ PtTimeoutFire
  \/ PtReconnectTimerFire
  \/ PtHeartbeatFire
  \/ PtSendMessage
  \/ PtEnqueue

SpecPT == Init /\ [][NextPT]_vars

\* the actions whose direct send is still to settle
PtOpenActions ==
  {a \in Keys : \E i \in PtIds : /\ ptRequests[i].outcome = "pending"
                                  /\ ptRequests[i].kind = "chat"
                                  /\ ptRequests[i].key # Null
                                  /\ ptRequests[i].key = ptDirect[a]}

\* the user completes a task: completeTask with two fresh keys
PtCompleteTask ==
  /\ Len(ptQueue) + Cardinality(PtOpenActions) < MaxQueue
  /\ Cardinality(FreeIds(PtCur)) > MaxQueue
  /\ Cardinality(PtFreeKeys) >= 2
  /\ LET key == CHOOSE k \in PtFreeKeys : \A j \in PtFreeKeys : KeyRank(k) <= KeyRank(j)
         rest == PtFreeKeys \ {key}
         wireKey == CHOOSE k \in rest : \A j \in rest : KeyRank(k) <= KeyRank(j)
     IN  \E p \in {completeTask(PtCur, key, wireKey)} : PtBecomes(p, "complete")

NextTask == NextPT \/ PtCompleteTask

SpecTask == Init /\ [][NextTask]_vars

\* ------------------------------------------------------- store actions
Stored(queue, conn, op) ==
  /\ stQueue' = queue
  /\ stConnection' = conn
  /\ stStorage' = saveState(queue, conn)
  /\ stLast' = op
  /\ UNCHANGED << engineVars, ptVars, sideVars >>

\* store.enqueue(item)
StEnqueue ==
  \E item \in StItems :
    /\ Len(stQueue) < MaxStored
    /\ Stored(Append(stQueue, item), stConnection, "enqueue")

\* store.dequeue(idempotencyKey)
StDequeue ==
  \E key \in {"k1", "k2"} :
    Stored(SelectSeq(stQueue, LAMBDA i : i.idempotencyKey # key), stConnection,
           "dequeue")

\* store.clearQueue()
StClearQueue == Stored(<< >>, stConnection, "clearQueue")

\* store.update('connection', {state, error})
StUpdateConnection ==
  \E st \in ConnectionStates : Stored(stQueue, st, "update")

\* the page is loaded again: state = loadState()
StRestart ==
  /\ stQueue' = loadState(stStorage).pendingQueue
  /\ stConnection' = loadState(stStorage).connection
  /\ stStorage' = stStorage
  /\ stLast' = "restart"
  /\ UNCHANGED << engineVars, ptVars, sideVars >>

NextStore ==
  \/ StEnqueue
  \/ StDequeue
  \/ StClearQueue
  \/ StUpdateConnection
  \/ StRestart

SpecStore == Init /\ [][NextStore]_vars

\* --------------------------------------------- device identity actions
IdStep(c, pc) ==
  /\ idPc' = [idPc EXCEPT ![c] = pc]
  /\ UNCHANGED << engineVars, ptVars, stVars, payVars, accVars, tkVars, actVars >>

\* getOrCreateDeviceIdentity() is called: await openDB()
IdCall ==
  \E c \in Callers :
    /\ idPc[c] = "idle"
    /\ IdStep(c, "open")
    /\ UNCHANGED << idb, idStored, idKey, idResult, idNext >>

\* const stored = await idbGet(db, IDENTITY_KEY)
IdGet ==
  \E c \in Callers :
    /\ idPc[c] = "open"
    /\ IdStep(c, "read")
    /\ idStored' = [idStored EXCEPT ![c] = idb]
    /\ UNCHANGED << idb, idKey, idResult, idNext >>

\* stored.version === 1 and both importKey calls succeed: the stored identity
IdImport ==
  \E c \in Callers :
    /\ idPc[c] = "read"
    /\ idStored[c].version = 1 /\ idStored[c].readable
    /\ IdStep(c, "idle")
    /\ idResult' = [idResult EXCEPT ![c] = idStored[c].deviceId]
    /\ UNCHANGED << idb, idStored, idKey, idNext >>

\* no record, or importKey threw: generateKeyPair() and the record built of it
IdGenerate ==
  \E c \in Callers :
    /\ idPc[c] = "read"
    /\ ~(idStored[c].version = 1 /\ idStored[c].readable)
    /\ idNext <= MaxKeys
    /\ IdStep(c, "made")
    /\ idKey' = [idKey EXCEPT ![c] = idNext]
    /\ idNext' = idNext + 1
    /\ UNCHANGED << idb, idStored, idResult >>

\* await idbPut(db, IDENTITY_KEY, record); return the new identity
IdPut ==
  \E c \in Callers :
    /\ idPc[c] = "made"
    /\ IdStep(c, "idle")
    /\ idb' = Record(idKey[c], TRUE)
    /\ idResult' = [idResult EXCEPT ![c] = idKey[c]]
    /\ UNCHANGED << idStored, idKey, idNext >>

\* openDB, idbGet, generateKey, exportKey or idbPut rejects: the call throws
IdFail ==
  \E c \in Callers :
    /\ idPc[c] \in {"open", "read", "made"}
    /\ IdStep(c, "idle")
    /\ UNCHANGED << idb, idStored, idKey, idResult, idNext >>

\* the stored record becomes unreadable: its jwk fields no longer import
IdDamage ==
  /\ idb.version = 1 /\ idb.readable
  /\ idb' = [idb EXCEPT !.readable = FALSE]
  /\ UNCHANGED << idPc, idStored, idKey, idResult, idNext >>
  /\ UNCHANGED << engineVars, ptVars, stVars, payVars, accVars, tkVars, actVars >>

NextIdentity ==
  \/ IdDamage
  \/ IdCall
  \/ IdGet
  \/ IdImport
  \/ IdGenerate
  \/ IdPut
  \/ IdFail

SpecIdentity == Init /\ [][NextIdentity]_vars

\* ------------------------------------------------- device auth payload
\* a caller builds the payload of some fields
BuildPayload ==
  \E p \in PayloadFields :
    /\ payIn' = p
    /\ payOut' = buildDeviceAuthPayload(p)
    /\ UNCHANGED << engineVars, ptVars, stVars, idVars, accVars, tkVars, actVars >>

NextPayload == BuildPayload
SpecPayload == Init /\ [][NextPayload]_vars

\* ---------------------------------------------------- delta accumulator
AccOthers == << engineVars, ptVars, stVars, idVars, payVars, tkVars, actVars >>

\* accumulator.append(delta): the agent streams the next piece of its message
AccAppend ==
  \E n \in 1..(Len(Messages[accMsg]) - Len(accBuffer)) :
    /\ accBuffer' = append(accBuffer,
                           SubSeq(Messages[accMsg], Len(accBuffer) + 1, Len(accBuffer) + n))
    /\ accLast' = "append"
    /\ UNCHANGED << accParsed, accMsg, AccOthers >>

\* accumulator.parse()
AccParse ==
  /\ accParsed' = parseCall(accBuffer).returned
  /\ accBuffer' = parseCall(accBuffer).buffer
  /\ accLast' = "parse"
  /\ UNCHANGED << accMsg, AccOthers >>

\* accumulator.reset(); the agent goes on to its next message
AccReset ==
  \E m \in 1..Len(Messages) :
    /\ accBuffer' = reset(accBuffer)
    /\ accMsg' = m
    /\ accLast' = "reset"
    /\ UNCHANGED << accParsed, AccOthers >>

NextAccumulator == AccAppend \/ AccParse \/ AccReset
SpecAccumulator == Init /\ [][NextAccumulator]_vars

\* ------------------------------------------------------------ tasks view
View == [tasks |-> tasks, buffer |-> accBuffer, parsed |-> accParsed,
         last |-> accLast, applied |-> applied]

TkBecomes(v) ==
  /\ tasks' = v.tasks
  /\ accBuffer' = v.buffer
  /\ accParsed' = v.parsed
  /\ accLast' = v.last
  /\ applied' = v.applied

\* the lengths of the piece a frame can carry when pos characters of
\* message m are out: none, or up to a multiple of Chunk or to the end
PieceLengths(m, pos) ==
  { n \in 0..(Len(Messages[m]) - pos) :
      n = 0 \/ (pos + n) % Chunk = 0 \/ pos + n = Len(Messages[m]) }

TkOthers == << engineVars, ptVars, stVars, idVars, payVars, actVars >>

\* a frame of the agent's message reaches the '*' listener: the next piece
\* of the text (none for a frame without text), with or without the mark
\* that the message is complete
TkFrame ==
  \E n \in PieceLengths(accMsg, tkPos), done \in BOOLEAN :
    /\ TkBecomes(starListener(View,
                   StarFrame(SubSeq(Messages[accMsg], tkPos + 1, tkPos + n), done)))
    /\ tkPos' = tkPos + n
    /\ UNCHANGED << accMsg, TkOthers >>

\* the agent goes on to its next message, once the listener is through
\* with the one before (the buffer was reset)
TkNextMessage ==
  \E m \in 1..Len(Messages) :
    /\ tkPos = Len(Messages[accMsg])
    /\ accBuffer = << >>
    /\ accMsg' = m
    /\ tkPos' = 0
    /\ applied' = NoData
    /\ UNCHANGED << tasks, accBuffer, accParsed, accLast, TkOthers >>

\* fetchTasks(): accumulator.reset()
TkFetchTasks ==
  /\ accBuffer' = reset(accBuffer)
  /\ accLast' = "reset"
  /\ applied' = NoData
  /\ UNCHANGED << tasks, accParsed, accMsg, tkPos, TkOthers >>

\* The agent streams each message as delta frames without the done mark
\* and ends it with a frame that carries the mark and no text.
StreamDelta ==
  \E n \in PieceLengths(accMsg, tkPos) \ {0} :
    /\ TkBecomes(starListener(View,
                   StarFrame(SubSeq(Messages[accMsg], tkPos + 1, tkPos + n), FALSE)))
    /\ tkPos' = tkPos + n
    /\ UNCHANGED << accMsg, TkOthers >>

StreamEnd ==
  /\ tkPos = Len(Messages[accMsg])
  /\ TkBecomes(starListener(View, StarFrame(<< >>, TRUE)))
  /\ UNCHANGED << tkPos, accMsg, TkOthers >>

NextStream == StreamDelta \/ StreamEnd \/ TkNextMessage
SpecStream == Init /\ [][NextStream]_vars

NextView == TkFrame \/ TkNextMessage \/ TkFetchTasks
SpecView == Init /\ [][NextView]_vars

\* ------------------------------------------------------------- claims
RetryStates == {"CONNECTED", "CONNECTING", "PAIRING"}
NotPairedFrames ==
  { ResFrame(TRUE, FALSE, Err("NOT_PAIRED", "pairing required")),
    ResFrame(TRUE, FALSE, Err("", "device NOT_PAIRED yet")) }
\* a socket closed in this step: onclose records itself in cause
Closed == cause'.by = "close" /\ SocketClose(CoreLimits)
\* the retry was scheduled in this step
Scheduled ==
  connection.state # "RECONNECTING" /\ connection'.state = "RECONNECTING"

\* C1: within one connection attempt at most one connect request frame is
\* written to the attempt's socket, whatever the interleaving of open,
\* challenges, the send-delay timer and teardowns with a signature pending.
C1_OneConnectRequest == ws.connectFrames <= 1

\* C2: at every moment at most one socket carries the engine's handlers: the
\* socket ws refers to.
C2_OneSocket == StaleCount(stale) = 0

\* C3: after disconnect(), as long as connect() is not called again, the state
\* is DISCONNECTED, no retry timer is pending and no socket exists.
C3_DisconnectedStays ==
  cause.by = "disconnect" =>
    /\ connection.state = "DISCONNECTED"
    /\ ~reconnectTimer.armed
    /\ ws.ready = "NONE"
    /\ StaleCount(stale) = 0

\* C4: in the pending-table engine disconnect() rejects every outstanding
\* request with 'Connection closed', clears the timeouts and empties the
\* pending table, and the timeout callback of a request runs only while the
\* request is outstanding.
C4_DisconnectRejectsPending ==
  [][/\ PtDisconnect =>
          /\ ptPendingRequests' = {}
          /\ ptTimeouts' = {}
          /\ ptConnection' = [state |-> "DISCONNECTED", error |-> Null]
          /\ \A id \in ptPendingRequests :
               /\ ptRequests[id].outcome = "pending"
               /\ ptRequests'[id].outcome = "Connection closed"
               /\ ptRequests'[id].calls = 1
     /\ \A id \in PtIds :
          PtTimeout(id) =>
            (id \in ptPendingRequests /\ ptRequests[id].outcome = "pending")]_vars

C4_Witness ==
  /\ ptLast = "disconnect"
  /\ ptPendingRequests = {}
  /\ \E id \in PtIds :
       /\ ptRequests[id].kind \in {"chat", "flush"}
       /\ ptRequests[id].outcome = "Connection closed"
  /\ \E id \in PtIds :
       /\ ptRequests[id].kind = "connect"
       /\ ptRequests[id].outcome = "Connection closed"

\* C5: a connect response with error code NOT_PAIRED, or with NOT_PAIRED in its
\* error message, received while CONNECTING sets the state to PAIRING with the
\* device identifier (null when there is no identity) as its detail, and
\* closes no socket.
C5_NotPairedToPairing ==
  [][connection.state = "CONNECTING" =>
       \A a \in Attached, f \in NotPairedFrames :
         Receive(CoreLimits, a, f) =>
           /\ connection' = [state |-> "PAIRING", error |-> deviceIdentity]
           /\ ws' = ws
           /\ stale' = stale]_vars

C5_Witness ==
  /\ connection.state = "PAIRING"
  /\ connection.error \in DeviceIds
  /\ ws.ready = "OPEN"

C7_RejectedStays ==
  cause.by = "rejected" =>
    /\ connection.state = "DISCONNECTED"
    /\ connection.error \in {"bad token", "Connect rejected"}
    /\ ~reconnectTimer.armed
    /\ ws.ready = "NONE"

\* C8: a socket close in CONNECTED, CONNECTING or PAIRING tears the session
\* down and enters RECONNECTING with exactly one retry timer armed; a close in
\* any other state ends in DISCONNECTED with no retry timer; a retry timer
\* that fires makes the state CONNECTING.
C8_CloseSchedulesRetry ==
  [][/\ Closed =>
          /\ ws' = NoSocket /\ ~heartbeatTimer' /\ ~connectTimer' /\ ~authenticated'
          /\ IF connection.state \in RetryStates
             THEN /\ connection'.state = "RECONNECTING"
                  /\ reconnectTimer'.armed
                  /\ strayReconnect' = << >>
             ELSE /\ connection'.state = "DISCONNECTED"
                  /\ ~reconnectTimer'.armed
                  /\ strayReconnect' = << >>
     /\ ReconnectTimerFire(CoreLimits) =>
          (connection'.state = "CONNECTING" /\ ~reconnectTimer'.armed)]_vars

C8_Witness ==
  /\ connection.state = "RECONNECTING"
  /\ cause = [by |-> "close", from |-> "CONNECTED"]
  /\ reconnectTimer.armed
  /\ ws = NoSocket

\* C9: the unjittered retry delay is min(1000 * 2^attempt, 30000): it does not
\* decrease over retries with no CONNECTED in between and stays within the
\* cap, the delay of the timer lies within 30% above it, the attempt counter
\* goes up by one per retry and is zero on every transition to CONNECTED, so
\* the first retry after a connection waits the base delay.
C9_Backoff ==
  [][/\ Scheduled =>
          /\ reconnectAttempt' = reconnectAttempt + 1
          /\ lastBase' >= lastBase
          /\ lastBase' <= RECONNECT_CAP
          /\ lastBase' <= RECONNECT_BASE * Pow2(reconnectAttempt)
          /\ lastBase = 0 => lastBase' = RECONNECT_BASE
          /\ reconnectTimer'.delay >= lastBase'
          /\ 10 * reconnectTimer'.delay < 13 * lastBase'
     /\ ~Scheduled => reconnectAttempt' \in {reconnectAttempt, 0}
     /\ (connection.state # "CONNECTED" /\ connection'.state = "CONNECTED") =>
          reconnectAttempt' = 0]_vars

C9_Witness ==
  /\ connection.state = "RECONNECTING"
  /\ lastBase = RECONNECT_CAP
  /\ reconnectAttempt = MaxAttempt

\* C10: at a heartbeat check while CONNECTED, more than three intervals
\* without a tick tear the session down and schedule a retry although the
\* socket is open; at most three intervals without a tick leave the
\* connection as it is; a tick restarts the count.
C10_HeartbeatTimeout ==
  [][/\ (connection.state = "CONNECTED" /\ sinceTick > 3 * HEARTBEAT_INTERVAL
           /\ HeartbeatFire(CoreLimits)) =>
          /\ connection'.state = "RECONNECTING"
          /\ reconnectTimer'.armed
          /\ ws' = NoSocket /\ ~heartbeatTimer' /\ ~authenticated'
     /\ (sinceTick <= 3 * HEARTBEAT_INTERVAL /\ HeartbeatFire(CoreLimits)) =>
          /\ connection' = connection
          /\ ws' = ws
          /\ heartbeatTimer'
          /\ reconnectTimer' = reconnectTimer
          /\ authenticated' = authenticated
     /\ heartbeatTimer =>
          \A a \in Attached :
            Receive(CoreLimits, a, EventFrame("tick", Null)) =>
              (sinceTick' = 0 /\ connection' = connection /\ ws' = ws)]_vars

C10_Witness ==
  /\ connection.state = "RECONNECTING"
  /\ cause.by = "heartbeat"
  /\ reconnectTimer.armed
  /\ ws = NoSocket

\* C12: in the pending-table engine the timeout of a request rejects that
\* request and removes its entry; the connection state, the socket, the
\* heartbeat, the retry timer, the queue and every other pending entry with
\* its timeout are left as they were.
C12_TimeoutRejectsOnlyItsRequest ==
  [][\A id \in PtIds :
       (ptRequests[id].kind \in {"chat", "flush"} /\ PtTimeout(id)) =>
         /\ ptRequests'[id].outcome = "timed out"
         /\ ptRequests'[id].calls = 1
         /\ ptPendingRequests' = ptPendingRequests \ {id}
         /\ ptTimeouts' = ptTimeouts \ {id}
         /\ \A j \in PtIds \ {id} : ptRequests'[j] = ptRequests[j]
         /\ ptConnection' = ptConnection
         /\ ptWs' = ptWs
         /\ ptHeartbeatTimer' = ptHeartbeatTimer
         /\ ptReconnectTimer' = ptReconnectTimer
         /\ ptReconnectAttempt' = ptReconnectAttempt
         /\ ptQueue' = ptQueue]_vars

C12_Witness ==
  /\ ptLast = "timeout"
  /\ ptConnection.state = "CONNECTED"
  /\ ptWs = "OPEN"
  /\ ptHeartbeatTimer
  /\ ptPendingRequests # {}
  /\ \E id \in PtIds :
       ptRequests[id].kind = "chat" /\ ptRequests[id].outcome = "timed out"

\* C11: a request that was written to the socket is outstanding when the
\* call returns: it is registered with a timeout and its promise is settled
\* only by the response with its id or by the timeout.
C11_RequestsArePending ==
  lastSend.written => lastSend.promise = "pending"

InQueue(k) == \E i \in 1..Len(pendingQueue) : pendingQueue[i] = k

\* C13: writing the frame of a queued item to the socket does not remove the
\* item: an item that was just transmitted is still queued (it leaves the
\* queue only on the acknowledgement that carries its key).
C13_TransmittedStaysQueued ==
  \A k \in Keys : wire[k] > 0 => InQueue(k)

\* C14: the queue is durable: at every moment loadState() of what was saved
\* last yields the queue of the store, item by item in the same order, and a
\* restart leaves the queue as it was.
C14_QueueDurable ==
  /\ loadState(stStorage).pendingQueue = stQueue
  /\ stLast = "restart" => stConnection = "DISCONNECTED"

C14_Witness ==
  /\ stLast = "restart"
  /\ Len(stQueue) = MaxStored
  /\ stQueue[1] # stQueue[2]

C16_FlushOncePerConnection ==
  [][(\E k \in Keys : wire'[k] > 0) =>
       (connection.state # "CONNECTED" /\ connection'.state = "CONNECTED")]_vars

\* the keys the transmissions of the action of key a carried: the one of its
\* direct send and the one of its requests from the queue
TransmittedKeys(a) ==
  {k \in Keys : \/ ptDirect[a] = k
                \/ /\ k = a
                   /\ \E i \in PtIds : /\ ptRequests[i].kind = "flush"
                                        /\ ptRequests[i].key = a
                                        /\ ptRequests[i].outcome \in
                                             {"pending", "resolved", "timed out",
                                              "Connection closed"}}

\* C17: every transmission of one task completion, the direct send and the
\* resends from the queue, carries the same idempotency key.
C17_StableIdempotencyKey ==
  \A a \in Keys : Cardinality(TransmittedKeys(a)) <= 1

\* a frame the engine is to forward: not the connect challenge, and not the
\* response to the connect request while that request is outstanding
Forwarded(f) ==
  /\ ~(f.type = "event" /\ f.event = "connect.challenge")
  /\ ~(f.type = "res" /\ f.idMatch /\ ~authenticated)

\* the step called every listener of the frame's names and of '*', and no
\* listener that is not registered
Published(f) ==
  /\ \A l \in eventHandlers : l[1] \in {f.type, f.event, "*"} => invoked'[l] >= 1
  /\ \A l \in Listeners \ eventHandlers : invoked'[l] = 0

\* C18: every inbound frame that is neither the connect challenge nor the
\* response to an outstanding request is published, within the step that
\* receives it, to the listeners of its names and to the wildcard listeners,
\* and to no listener that was removed.
C18_FramesArePublished ==
  [][\A f \in Frames :
       (eventHandlers # {} /\ Forwarded(f)) =>
         \A a \in Attached : Receive(ListenLimits, a, f) => Published(f)]_vars

\* C19: decoding never throws and text that is not JSON decodes to the
\* sentinel frame; handling a payload that is not the text of a frame raises
\* no error and leaves the connection state, the timers, the handshake flags
\* and the queue as they were.
C19_MalformedIsIgnored ==
  [][\A data \in Payloads :
       data.kind # "object" =>
         /\ data.kind = "invalid" => parseFrame(data) = Sentinel(data.text)
         /\ \A a \in Attached :
              ReceiveRaw(RawLimits, a, data) =>
                /\ thrown' = Null
                /\ connection' = connection
                /\ << heartbeatTimer, reconnectTimer, connectTimer >>' =
                     << heartbeatTimer, reconnectTimer, connectTimer >>
                /\ << authenticated, connectSent, connectId, challengeNonce >>' =
                     << authenticated, connectSent, connectId, challengeNonce >>
                /\ pendingQueue' = pendingQueue]_vars

\* C20: a failure to sign with the device identity is not fatal: when
\* signPayload fails for a sendConnect() that waits on an open socket, the
\* connect request is still written to the socket.
C20_SignFailureNotFatal ==
  [][(/\ awaitSign # << >>
      /\ deviceIdentity # Null
      /\ ws.ready = "OPEN"
      /\ \E i \in 1..Len(awaitSign) :
           \E e \in {sendConnectResume(Cur, i, FALSE)} : Becomes(e))
       => ws'.connectFrames = ws.connectFrames + 1]_vars

\* C21: getOrCreateDeviceIdentity is idempotent: the device id a call
\* returns is the one of the persisted record, and no call, in sequence or
\* overlapping another, replaces a persisted record that is readable.
C21_IdentityIdempotent ==
  [][\A c \in Callers :
       idPc[c] # "idle" /\ idPc'[c] = "idle" /\ idResult'[c] # idResult[c] =>
         /\ idResult'[c] = idb'.deviceId
         /\ (idb.version = 1 /\ idb.readable) => idb' = idb]_vars

\* the fields of a payload string: the runs of tokens between the bars
RECURSIVE SplitBars(_)
SplitBars(s) ==
  IF \A i \in 1..Len(s) : s[i] # "|" THEN << s >>
  ELSE LET n == CHOOSE i \in 1..Len(s) : s[i] = "|" /\ \A j \in 1..(i - 1) : s[j] # "|"
       IN  << SubSeq(s, 1, n - 1) >> \o SplitBars(SubSeq(s, n + 1, Len(s)))

\* C22: buildDeviceAuthPayload yields the fields version, deviceId, clientId,
\* clientMode, role, comma-joined scopes, signedAtMs, token in this order,
\* joined by bars: version v2 with the nonce as ninth and last field exactly
\* when a nonce is given, version v1 with eight fields otherwise.
C22_PayloadCanonical ==
  payIn # NoFields =>
    LET f == SplitBars(payOut)
        hasNonce == payIn.nonce \in PayloadNonces
    IN  /\ Len(f) = IF hasNonce THEN 9 ELSE 8
        /\ f[1] = << IF hasNonce THEN "v2" ELSE "v1" >>
        /\ f[2] = << payIn.deviceId >>
        /\ f[3] = << payIn.clientId >>
        /\ f[4] = << payIn.clientMode >>
        /\ f[5] = << payIn.role >>
        /\ f[6] = Join(AsFields(payIn.scopes), ",")
        /\ f[7] = << ToString(payIn.signedAtMs) >>
        /\ f[8] = << IF payIn.token = Null THEN "" ELSE payIn.token >>
        /\ hasNonce => f[9] = << payIn.nonce >>

C22_Witness ==
  /\ payIn # NoFields
  /\ payIn.nonce \in PayloadNonces
  /\ payIn.scopes = SCOPES
  /\ payIn.token = "tok"
  /\ payOut[Len(payOut)] = payIn.nonce

\* C23: whatever the split of a message into deltas, once all deltas are
\* appended parse() returns what it returns for the whole message appended
\* at once.
C23_DeltasReassemble ==
  /\ \E n \in 0..Len(Messages[accMsg]) : accBuffer = SubSeq(Messages[accMsg], 1, n)
  /\ (accLast = "parse" /\ Len(accBuffer) = Len(Messages[accMsg])) =>
       accParsed = parse(append(<< >>, Messages[accMsg]))

C23_Witness ==
  /\ accLast = "parse"
  /\ accBuffer = MsgFull
  /\ accParsed.data /\ accParsed.hasStats /\ Len(accParsed.items) = 2

\* C24: parse() is idempotent and free of side effects: a parse() leaves the
\* buffer as it was, and right after another parse() it returns the same
\* value; only append() makes the buffer longer, only reset() empties it,
\* and a parse() right after reset() returns no data.
C24_ParseIdempotent ==
  [][/\ accLast' = "parse" =>
          /\ accBuffer' = accBuffer
          /\ accLast = "parse" => accParsed' = accParsed
          /\ accLast = "reset" => accParsed' = NoData
     /\ Len(accBuffer') > Len(accBuffer) => accLast' = "append"
     /\ (accBuffer # << >> /\ accBuffer' = << >>) => accLast' = "reset"
     /\ accLast' = "reset" => accBuffer' = << >>]_vars

C24_Witness ==
  /\ accLast = "parse"
  /\ accBuffer = MsgTasks
  /\ accParsed = parse(MsgTasks)
  /\ accParsed.data

\* the text holds a stats line, or a line that is a task line
HasStatsLine(text) == Search(text, STATS_PATTERN, 1).ok
HasTaskLine(text) ==
  \E i \in 1..Len(split(text)) : Match(split(text)[i], TASK_LINE_PATTERN, 1, 1, NoCaps).ok

\* C25: parse() returns no data exactly on a buffer, the empty one
\* included, that holds neither a stats line nor a task line, and a record
\* with the stats and the task lines found otherwise.
C25_NoDataOrRecord ==
  accLast = "parse" =>
    /\ accParsed = NoData <=> ~HasStatsLine(accBuffer) /\ ~HasTaskLine(accBuffer)
    /\ accParsed # NoData =>
         /\ accParsed.data
         /\ accParsed.hasStats <=> HasStatsLine(accBuffer)
         /\ accParsed.items # << >> <=> HasTaskLine(accBuffer)

C25_Witness ==
  /\ accLast = "parse"
  /\ accMsg = 4
  /\ accBuffer = MsgNone
  /\ accParsed = NoData

\* C26: the stored task list is replaced wholesale by each parse result
\* that is applied: after the step that applied it, the stored items are
\* exactly the items of that result.
C26_ItemsReplaced == applied.data => tasks.items = applied.items

Teardown ==
  \/ Closed
  \/ cause'.by = "disconnect" /\ Disconnect(CoreLimits)
  \/ cause'.by = "heartbeat" /\ HeartbeatFire(CoreLimits)
  \/ cause.by # "rejected" /\ cause'.by = "rejected"
  \/ cause' = NoCause /\ Connect(CoreLimits)
\* the send-delay timers that are armed, and the open sockets left that
\* carry handlers
ArmedConnectTimers(e) == (IF e.connectTimer THEN 1 ELSE 0) + e.strayConnect
OpenSockets(e) ==
  LET RECURSIVE Sum(_)
      Sum(S) == IF S = {} THEN 0
                ELSE LET q == CHOOSE x \in S : TRUE IN e.stale[q] + Sum(S \ {q})
  IN  Sum({q \in StaleKinds : q.ready = "OPEN"})
            + (IF e.ws.ready = "OPEN" THEN 1 ELSE 0)

\* C28: every teardown cancels the send-delay timer, the heartbeat
\* interval and the retry timer: after the step the heartbeat is off, the
\* only retry timer armed is the one the step scheduled, and no send-delay
\* timer is armed beyond those of the sockets that are still open; so a
\* socket that closes with its send-delay timer pending leaves none behind.
C28_TeardownCancelsTimers ==
  [][Teardown =>
       /\ ~heartbeatTimer'
       /\ strayReconnect' = << >>
       /\ reconnectTimer'.armed => connection'.state = "RECONNECTING"
       /\ ArmedConnectTimers([connectTimer |-> connectTimer',
                              strayConnect |-> strayConnect'])
            <= OpenSockets([stale |-> stale', ws |-> ws'])]_vars

\* C29: each flush sends the queued items under the session key of the
\* agent identifier the store holds at the time of the flush.
C29_FlushUsesCurrentSettings ==
  (flushKey # Null /\ \E k \in Keys : wire[k] > 0) =>
    flushKey = getSessionKey(agentId(settings))

\* the completion is on the offline queue
InQueueAfter(key) == \E i \in 1..Len(pendingQueue') : pendingQueue'[i] = key

\* C30: no task completion is lost silently: completeTask leaves its
\* message written to an open socket, or on the offline queue, or tells the
\* user; and when the socket closes before the gateway received a message
\* written to it, the message is put on the queue or the user is told.
C30_NoActionLostSilently ==
  [][/\ (userAction' # userAction /\ userAction'.fate \in {"written", "queued"}) =>
          \/ userAction'.fate = "written" /\ ws.ready = "OPEN" /\ lastSend'.written
          \/ InQueueAfter(userAction'.key)
          \/ userAction'.toast
     /\ (/\ userAction.fate = "written"
         /\ ws.ready = "OPEN" /\ ws'.ready # "OPEN"
         /\ cause'.by = "close") =>
          \/ InQueueAfter(userAction.key)
          \/ userAction'.toast /\ ~userAction.toast]_vars

\* C31: in the pending-table engine a socket close in CONNECTING leads to
\* RECONNECTING with the retry timer armed, also when the socket had opened
\* and the connect entry is still in the pending table.
C31_CloseInHandshakeRetries ==
  [][(/\ ptConnection.state = "CONNECTING"
      /\ ptLast' = "close"
      /\ PtSocketClose) =>
        /\ ptConnection'.state = "RECONNECTING"
        /\ ptReconnectTimer']_vars

\* C32: a frame that handleMessage forwards is delivered to every wildcard
\* listener exactly once, with or without an event name in the frame.
C32_WildcardOnce ==
  [][\A f \in Frames :
       (/\ \E l \in eventHandlers : l[1] = "*"
        /\ ~(f.type = "event" /\ f.event = "connect.challenge")
        /\ ~(f.type = "res" /\ f.idMatch)) =>
         \A a \in Attached :
           Receive(ListenLimits, a, f) =>
             \A l \in eventHandlers : l[1] = "*" => invoked'[l] = 1]_vars

\* the stream of the message is over: all of it was delivered and the
\* listener has emptied its buffer
StreamOver ==
  /\ tkPos = Len(Messages[accMsg])
  /\ tkPos > 0
  /\ accBuffer = << >>

\* C33: after a message with task lines was streamed as deltas and ended,
\* the stored task list is the one of the parse of the whole message, and so
\* are day and stats when the message has a stats line, however the message
\* was split.
C33_StreamEqualsWhole ==
  LET whole == parse(Messages[accMsg]) IN
  (StreamOver /\ whole.data /\ Len(whole.items) > 0) =>
    /\ tasks.items = whole.items
    /\ whole.hasStats => (tasks.day = whole.day /\ tasks.stats = whole.stats)

\* C34: between callbacks authenticated is true exactly when the state is
\* CONNECTED, and then ws is a socket and the heartbeat interval is armed.
C34_AuthenticatedIffConnected ==
  /\ authenticated <=> connection.state = "CONNECTED"
  /\ authenticated => (ws.ready # "NONE" /\ heartbeatTimer)

\* C35: between callbacks the state is RECONNECTING exactly when a retry
\* timer is pending, and at most one retry timer is pending.
C35_ReconnectingIffTimer ==
  /\ connection.state = "RECONNECTING" <=> reconnectTimer.armed
  /\ strayReconnect = << >>

\* C36: an attempt whose socket opened does not stay in CONNECTING forever
\* when the gateway neither answers nor closes: with timers firing, the
\* engine leaves CONNECTING on its own.
C36_HandshakeEnds ==
  []<>~(connection.state = "CONNECTING" /\ ws.ready = "OPEN")

\* C37: a connect request that is written with a device block carries in its
\* params the auth token that was serialized into the signed payload.
C37_ConnectSelfConsistent ==
  (connectFrame.built /\ connectFrame.written /\ connectFrame.device # NoPayload) =>
    connectFrame.token = connectFrame.device.signed.token

\* C38: on each transition to CONNECTED the presentation layer writes the
\* fetch request at most once, however often the main view was rendered.
C38_FetchOncePerConnect ==
  [][(connection.state # "CONNECTED" /\ connection'.state = "CONNECTED") =>
       fetched' <= 1]_vars

\* C39: in the pending-table engine every request is settled at most once,
\* it is settled exactly when it has left the table, and an id has an entry
\* in the table exactly when its timeout is armed.
C39_SettledOnce ==
  /\ ptPendingRequests = ptTimeouts
  /\ \A id \in PtIds :
       LET r == ptRequests[id] IN
       r.kind # "none" =>
         /\ r.calls <= 1
         /\ r.outcome = "pending" <=> id \in ptPendingRequests
         /\ r.outcome = "pending" <=> r.calls = 0

C39_Witness ==
  \E i, j \in PtIds :
    /\ ptRequests[i].kind = "chat" /\ ptRequests[i].outcome = "resolved"
    /\ ptRequests[i].calls = 1
    /\ ptRequests[j].kind = "chat" /\ ptRequests[j].outcome = "Connection closed"
    /\ ptRequests[j].calls = 1

\* C40: the engine never has more than one 'tick' listener of its own
\* registered, and none while no heartbeat is armed (after a teardown).
C40_OwnListenersBounded ==
  /\ tickListeners <= 1
  /\ ~heartbeatTimer => tickListeners = 0

====
